---- MODULE Spec2Model ----
(***************************************************************************)
(* valutatrade_hub: the TTL-governed rates cache.                          *)
(*                                                                         *)
(*   core/usecases.py          get_rate, _is_stale          (RateResolver) *)
(*   parser_service/updater.py RatesUpdater.update, run_once (Coordinator) *)
(*   parser_service/api_clients.py  the two source adapters                *)
(*   infra/database.py         rates.json / exchange_rates.json            *)
(*   parser_service/scheduler.py    the background refresh loop            *)
(*   core/usecases.py, core/models.py  buy, sell, Wallet, Portfolio        *)
(*                                                                         *)
(* Time is counted in whole seconds.  A pair key "CODE_BASE" is the tuple  *)
(* <<CODE, BASE>>; a rate is a fraction <<numerator, denominator>>.  A     *)
(* missing dict key and Python's None are both the value None.             *)
(***************************************************************************)
EXTENDS Integers, Sequences, FiniteSets, TLC

VARIABLES
    cache,      \* rates.json: [pairs, last_refresh]
    history,    \* exchange_rates.json: the sequence of history records
    now,        \* the wall clock, datetime.now(timezone.utc)
    ttl,        \* settings.rates_ttl
    api_key,    \* EXCHANGERATE_API_KEY
    result,     \* what the last call returned or raised, until its caller takes it
    sched,      \* the scheduler thread: where it is in _run_loop, its stop event
    main,       \* the main thread: where it is in a get_rate call
    files,      \* rates.tmp, and whether rates.json holds one whole document
    wallets     \* portfolios.json: the user's balance per currency code

vars == <<cache, history, now, ttl, api_key, result, sched, main, files, wallets>>

\* the variables of the threads, the file level and the portfolio
others == <<sched, main, files, wallets>>

\* Python None, and a key missing from a dict
None == <<>>

---------------------------------------------------------------------------
(* Bounds of the model *)

\* last second of the wall clock
MaxClock == 2
\* most records exchange_rates.json grows to
MaxHistory == 2
\* largest RATES_TTL_SECONDS a store is read with
MaxTtl == 1

---------------------------------------------------------------------------
(* Configuration and registry *)

Registry == {"USD", "EUR", "GBP", "RUB", "BTC", "ETH", "SOL"}

FIAT_CURRENCIES == {"USD", "EUR", "RUB", "GBP"}

CRYPTO_ID_MAP == [BTC |-> "bitcoin", ETH |-> "ethereum", SOL |-> "solana"]

\* dict order of CRYPTO_ID_MAP, the order fetch_rates fills its result in
CryptoOrder == <<"BTC", "ETH", "SOL">>

BASE_FIAT_CURRENCY == "USD"

\* code.upper().strip() on the codes the model passes in
Upper(code) ==
    CASE code = "btc" -> "BTC"
      [] code = "eur" -> "EUR"
      [] code = "usd" -> "USD"
      [] OTHER -> code

---------------------------------------------------------------------------
(* Rates: fractions <<n, d>> with d # 0 *)

Zero == <<0, 1>>

\* a JSON value in a rate's place that float() rejects and 1 / x cannot divide by
NotANumber == <<"abc">>

\* Python truthiness of a rate value: None and 0 are falsy
Truthy(r) == r # None /\ r[1] # 0

\* an inversion that leaves the rate as it came
RecipAsIs(r) == r

\* 1 / r for r # 0
Recip(r) == IF r[1] > 0 THEN <<r[2], r[1]>> ELSE <<-r[2], -r[1]>>

---------------------------------------------------------------------------
(* Timestamps: ISO-8601 strings *)

\* datetime.isoformat() of an aware UTC datetime: "...+00:00"
Iso(t) == <<"iso", t>>

\* the same instant written with a trailing "Z"
IsoZ(t) == <<"isoZ", t>>

\* a string datetime.fromisoformat rejects
Unparsable == <<"text">>

\* datetime.fromisoformat(value) succeeds
Parses(value) == Len(value) = 2

\* the instant datetime.fromisoformat(value) denotes, as UTC
ParseIso(value) == value[2]

\* a or b
OrElse(a, b) == IF a # None THEN a ELSE b

---------------------------------------------------------------------------
(* Pair keys *)

PairKey(code, base) == <<code, base>>

Left(pair) == pair[1]

Right(pair) == pair[2]

EmptyPairs == <<>>

\* rates.json as _init_files creates it
EmptyCache == [pairs |-> EmptyPairs, last_refresh |-> None]

---------------------------------------------------------------------------
(* core/usecases.py: _is_stale *)

\* a staleness test that counts the boundary as stale
IsStaleGe(updated_at, ttl_seconds, clock) ==
    IF updated_at = None THEN TRUE
    ELSE IF ~Parses(updated_at) THEN TRUE
    ELSE (clock - ParseIso(updated_at)) >= ttl_seconds

\* _is_stale(updated_at, ttl_seconds) at wall clock `clock`
IsStale(updated_at, ttl_seconds, clock) ==
    IF updated_at = None THEN TRUE
    ELSE IF ~Parses(updated_at) THEN TRUE
    ELSE (clock - ParseIso(updated_at)) > ttl_seconds

---------------------------------------------------------------------------
(* parser_service/api_clients.py *)

\* An upstream reply is [net, status, body]: a transport failure, or an HTTP
\* status with a body that is invalid JSON, a JSON scalar or a JSON object.
\* A key the payload lacks is None ("" for base_code).
NoBody == [shape |-> "object", obj |-> <<>>]

\* BaseApiClient._make_request: {} on RequestException, non-2xx, bad JSON
MakeRequest(resp) ==
    IF resp.net = "error" THEN NoBody
    ELSE IF ~(200 <= resp.status /\ resp.status < 300) THEN NoBody
    ELSE IF resp.body.shape = "invalid" THEN NoBody
    ELSE resp.body

\* bool(data) of a decoded body (the scalar of the model is non-zero)
TruthyBody(data) == data.shape = "scalar" \/ DOMAIN data.obj # {}

\* fetch_rates returning {}
NoCrypto == [raised |-> FALSE, error |-> "", value |-> <<>>]

\* a crypto adapter that hands the payload's entries on under their coin ids
CoinGeckoFetchRawIds(resp) ==
    LET data == MakeRequest(resp)
    IN  IF ~TruthyBody(data) THEN NoCrypto
        ELSE IF data.shape = "scalar"
             THEN [raised |-> TRUE, error |-> "TypeError", value |-> <<>>]
        ELSE [raised |-> FALSE, error |-> "",
              value |-> [id \in {CRYPTO_ID_MAP[c] : c \in DOMAIN CRYPTO_ID_MAP}
                                 \cap DOMAIN data.obj |-> data.obj[id]]]

\* CoinGeckoClient.fetch_rates: code -> payload[coin id]
CoinGeckoFetch(resp) ==
    LET data == MakeRequest(resp)
    IN  IF ~TruthyBody(data) THEN NoCrypto
        ELSE IF data.shape = "scalar"
             THEN [raised |-> TRUE, error |-> "TypeError", value |-> <<>>]
        ELSE [raised |-> FALSE, error |-> "",
              value |-> [code \in {c \in DOMAIN CRYPTO_ID_MAP :
                                     CRYPTO_ID_MAP[c] \in DOMAIN data.obj}
                           |-> data.obj[CRYPTO_ID_MAP[code]]]]

NoFiat == [present |-> FALSE, base |-> "", rates |-> <<>>]

NoFiatFetch == [raised |-> FALSE, error |-> "", value |-> NoFiat]

\* ExchangeRateClient.fetch_rates: {"base": ..., "rates": conversion_rates}
ExchangeRateFetch(resp, key) ==
    IF key = "" THEN NoFiatFetch
    ELSE LET data == MakeRequest(resp)
         IN  IF ~TruthyBody(data) THEN NoFiatFetch
             ELSE IF data.shape = "scalar"
                  THEN [raised |-> TRUE, error |-> "AttributeError", value |-> NoFiat]
             ELSE IF data.obj.result # "success"
                     \/ data.obj.conversion_rates = None
                  THEN NoFiatFetch
             ELSE [raised |-> FALSE, error |-> "",
                   value |-> [present |-> TRUE,
                              base |-> IF data.obj.base_code = ""
                                       THEN BASE_FIAT_CURRENCY
                                       ELSE data.obj.base_code,
                              rates |-> data.obj.conversion_rates]]

---------------------------------------------------------------------------
(* parser_service/updater.py: RatesUpdater.update *)

CryptoEnabled(source) == source \in {"none", "", "coingecko"}

FiatEnabled(source) == source \in {"none", "", "exchangerate"}

AllowedCodes == FIAT_CURRENCIES \cup DOMAIN CRYPTO_ID_MAP \cup {"USD"}

\* a cycle that starts from an empty dict instead of the cached pairs
GarbageCollectNothingKept(pairs) == EmptyPairs

\* drop the pairs with an unsupported leg
GarbageCollect(pairs) ==
    [p \in {q \in DOMAIN pairs : Left(q) \in AllowedCodes /\ Right(q) \in AllowedCodes}
       |-> pairs[p]]

RECURSIVE CryptoWrites(_, _)
\* the quotes the crypto loop writes, in dict order, from position i on
CryptoWrites(crypto, i) ==
    IF i > Len(CryptoOrder) THEN <<>>
    ELSE LET code == CryptoOrder[i]
             rest == CryptoWrites(crypto, i + 1)
         IN  IF code \notin DOMAIN crypto THEN rest
             ELSE IF crypto[code].usd = None THEN rest
             ELSE IF crypto[code].usd = NotANumber THEN <<>>
             ELSE <<[pair |-> PairKey(code, "USD"), from |-> code, to |-> "USD",
                     rate |-> crypto[code].usd, source |-> "CoinGecko"]>> \o rest

RECURSIVE FiatWritesNoInvert(_, _)
\* a fiat loop that stores the table's rate as it came, whatever the base
FiatWritesNoInvert(fiat, i) ==
    IF ~fiat.present \/ i > Len(fiat.rates) THEN <<>>
    ELSE LET code == fiat.rates[i][1]
             usd_to_code == fiat.rates[i][2]
             rest == FiatWritesNoInvert(fiat, i + 1)
         IN  IF usd_to_code = None THEN rest
             ELSE IF usd_to_code = NotANumber /\ fiat.base = "USD" THEN <<>>
             ELSE IF usd_to_code # NotANumber /\ usd_to_code[1] = 0 THEN rest
             ELSE <<[pair |-> PairKey(code, fiat.base), from |-> code, to |-> fiat.base,
                     rate |-> usd_to_code, source |-> "ExchangeRate-API"]>> \o rest

\* float(rate) raises in the crypto loop
CryptoLoopRaises(crypto) == \E code \in DOMAIN crypto : crypto[code].usd = NotANumber

\* 1 / usd_to_code raises in the fiat loop
FiatLoopRaises(fiat) ==
    /\ fiat.present /\ fiat.base = "USD"
    /\ \E i \in 1..Len(fiat.rates) : fiat.rates[i][2] = NotANumber

RECURSIVE FiatWrites(_, _)
\* the quotes the fiat loop writes, in payload order, from position i on
FiatWrites(fiat, i) ==
    IF ~fiat.present \/ i > Len(fiat.rates) THEN <<>>
    ELSE LET code == fiat.rates[i][1]
             usd_to_code == fiat.rates[i][2]
             rest == FiatWrites(fiat, i + 1)
         IN  IF usd_to_code = None THEN rest
             ELSE IF usd_to_code = NotANumber
                  THEN IF fiat.base = "USD" THEN <<>>
                       ELSE <<[pair |-> PairKey(code, fiat.base), from |-> code,
                               to |-> fiat.base, rate |-> usd_to_code,
                               source |-> "ExchangeRate-API"]>> \o rest
             ELSE IF usd_to_code[1] = 0 THEN rest
             ELSE IF fiat.base = "USD"
                  THEN <<[pair |-> PairKey(code, "USD"), from |-> code, to |-> fiat.base,
                          rate |-> Recip(usd_to_code), source |-> "ExchangeRate-API"]>> \o rest
                  ELSE <<[pair |-> PairKey(code, fiat.base), from |-> code, to |-> fiat.base,
                          rate |-> usd_to_code, source |-> "ExchangeRate-API"]>> \o rest

RECURSIVE ApplyWritesOwnClock(_, _, _)
\* a merge that reads the clock again for every quote it stores
ApplyWritesOwnClock(pairs, writes, timestamp) ==
    IF writes = <<>> THEN pairs
    ELSE LET w == Head(writes)
             q == [rate |-> w.rate, updated_at |-> timestamp, source |-> w.source]
         IN  ApplyWritesOwnClock((w.pair :> q) @@ pairs, Tail(writes),
                                 <<timestamp[1], timestamp[2] + 1>>)

RECURSIVE ApplyWrites(_, _, _)
\* pairs[pair_key] = {...} for each write in turn (last write wins)
ApplyWrites(pairs, writes, timestamp) ==
    IF writes = <<>> THEN pairs
    ELSE LET w == Head(writes)
             q == [rate |-> w.rate, updated_at |-> timestamp, source |-> w.source]
         IN  ApplyWrites((w.pair :> q) @@ pairs, Tail(writes), timestamp)

\* a history that takes one record per loop, for the loop's first write
HistoryRecordsFirstOnly(writes, timestamp) ==
    [i \in 1..(IF writes = <<>> THEN 0 ELSE 1) |->
        [id |-> <<writes[i].from, writes[i].to, timestamp>>,
         from_currency |-> writes[i].from,
         to_currency |-> writes[i].to,
         rate |-> writes[i].rate,
         timestamp |-> timestamp,
         source |-> writes[i].source]]

\* _append_history_record for each write in turn
HistoryRecords(writes, timestamp) ==
    [i \in 1..Len(writes) |->
        [id |-> <<writes[i].from, writes[i].to, timestamp>>,
         from_currency |-> writes[i].from,
         to_currency |-> writes[i].to,
         rate |-> writes[i].rate,
         timestamp |-> timestamp,
         source |-> writes[i].source]]

\* One cycle on cache c and history h at clock t.  cFetched and fFetched are
\* what the adapters' fetch_rates give when the cycle calls them.  An
\* exception escaping an adapter ends the cycle before anything is written;
\* one raised inside a loop ends it after the history records of the quotes
\* before it were appended and before the cache is saved.
Update(source, cFetched, fFetched, c, h, t) ==
    LET timestamp == Iso(t)
        cFetch == IF CryptoEnabled(source) THEN cFetched ELSE NoCrypto
        fFetch == IF FiatEnabled(source) THEN fFetched ELSE NoFiatFetch
        crypto == cFetch.value
        fiat == fFetch.value
        cw == CryptoWrites(crypto, 1)
        fw == FiatWrites(fiat, 1)
        pairs == ApplyWrites(ApplyWrites(GarbageCollect(c.pairs), cw, timestamp),
                             fw, timestamp)
    IN  IF cFetch.raised \/ fFetch.raised
        THEN [raised |-> TRUE,
              error |-> IF cFetch.raised THEN cFetch.error ELSE fFetch.error,
              cache |-> c, history |-> h, ret |-> None]
        ELSE IF CryptoLoopRaises(crypto)
        THEN [raised |-> TRUE, error |-> "ValueError", cache |-> c,
              history |-> h \o HistoryRecords(cw, timestamp), ret |-> None]
        ELSE IF FiatLoopRaises(fiat)
        THEN [raised |-> TRUE, error |-> "TypeError", cache |-> c,
              history |-> h \o HistoryRecords(cw, timestamp)
                           \o HistoryRecords(fw, timestamp),
              ret |-> None]
        ELSE [raised |-> FALSE, error |-> "",
              cache |-> IF DOMAIN pairs # {}
                        THEN [pairs |-> pairs, last_refresh |-> timestamp]
                        ELSE c,
              history |-> h \o HistoryRecords(cw, timestamp)
                           \o HistoryRecords(fw, timestamp),
              ret |-> [ok |-> DOMAIN pairs # {},
                       updated_pairs |-> Cardinality(DOMAIN pairs),
                       last_refresh |-> timestamp,
                       warnings |-> <<>>,
                       sources |-> [coingecko |-> Cardinality(DOMAIN crypto),
                                    exchangerate |-> IF fiat.present
                                                     THEN Len(fiat.rates) ELSE 0]]]

---------------------------------------------------------------------------
(* core/currencies.py, core/usecases.py: get_rate *)

\* a registry that resolves every code
GetCurrencyLenient(code) ==
    [found |-> TRUE, code |-> Upper(code)]

\* CurrencyRegistry.get_currency: found, or CurrencyNotFoundError(code)
GetCurrency(code) ==
    LET c == Upper(code) IN [found |-> c \in Registry, code |-> c]

\* a lookup that hands back the reverse pair's rate as it is stored
LookupNoInvert(c, pair_direct, pair_reverse) ==
    LET pairs == c.pairs
    IN  IF pair_direct \in DOMAIN pairs
        THEN [rate |-> pairs[pair_direct].rate,
              updated_at |-> OrElse(pairs[pair_direct].updated_at, c.last_refresh),
              via |-> "direct"]
        ELSE IF pair_reverse \in DOMAIN pairs /\ Truthy(pairs[pair_reverse].rate)
        THEN [rate |-> pairs[pair_reverse].rate,
              updated_at |-> OrElse(pairs[pair_reverse].updated_at, c.last_refresh),
              via |-> "reverse"]
        ELSE [rate |-> None, updated_at |-> None, via |-> "none"]

\* a lookup that asks the reverse pair first
LookupReverseFirst(c, pair_direct, pair_reverse) ==
    LET pairs == c.pairs
    IN  IF pair_reverse \in DOMAIN pairs /\ Truthy(pairs[pair_reverse].rate)
        THEN [rate |-> Recip(pairs[pair_reverse].rate),
              updated_at |-> OrElse(pairs[pair_reverse].updated_at, c.last_refresh),
              via |-> "reverse"]
        ELSE IF pair_direct \in DOMAIN pairs
        THEN [rate |-> pairs[pair_direct].rate,
              updated_at |-> OrElse(pairs[pair_direct].updated_at, c.last_refresh),
              via |-> "direct"]
        ELSE [rate |-> None, updated_at |-> None, via |-> "none"]

\* the direct / reverse lookup of get_rate on one read of the cache
Lookup(c, pair_direct, pair_reverse) ==
    LET pairs == c.pairs
    IN  IF pair_direct \in DOMAIN pairs
        THEN [rate |-> pairs[pair_direct].rate,
              updated_at |-> OrElse(pairs[pair_direct].updated_at, c.last_refresh),
              via |-> "direct"]
        ELSE IF pair_reverse \in DOMAIN pairs /\ Truthy(pairs[pair_reverse].rate)
        THEN [rate |-> Recip(pairs[pair_reverse].rate),
              updated_at |-> OrElse(pairs[pair_reverse].updated_at, c.last_refresh),
              via |-> "reverse"]
        ELSE [rate |-> None, updated_at |-> None, via |-> "none"]

\* a resolver that refreshes on a miss only
NeedsRefreshOnlyAbsent(found, ttl_seconds, clock) ==
    found.rate = None

\* a resolver that refreshes on every call
NeedsRefreshAlways(found, ttl_seconds, clock) ==
    TRUE

\* rate is None or _is_stale(updated_at, ttl)
NeedsRefresh(found, ttl_seconds, clock) ==
    found.rate = None \/ IsStale(found.updated_at, ttl_seconds, clock)

\* final checks without the staleness test
ClassifyNoStaleCheck(found, ttl_seconds, clock) ==
    IF found.rate = None THEN "CurrencyNotFoundError" ELSE "ok"

\* final checks with the staleness test first
ClassifyStaleFirst(found, ttl_seconds, clock) ==
    IF IsStale(found.updated_at, ttl_seconds, clock) THEN "StaleRatesError"
    ELSE IF found.rate = None THEN "CurrencyNotFoundError"
    ELSE "ok"

\* the two final checks of get_rate.  usecases.py imports StaleRatesError
\* from core/exceptions.py, which does not define it; the model takes it as
\* the exception class usecases.py:227 raises with (pair, updated_at).
Classify(found, ttl_seconds, clock) ==
    IF found.rate = None THEN "CurrencyNotFoundError"
    ELSE IF IsStale(found.updated_at, ttl_seconds, clock) THEN "StaleRatesError"
    ELSE "ok"

NotFound == [rate |-> None, updated_at |-> None, via |-> "none"]

\* What a call hands back.  status is "ok" or the exception raised, reason
\* the exception's argument.  refresh tells whether the call ran a cycle
\* ("none", "done", "raised"), lookups how many times it read the cache and
\* looked the pair up; cycle is the dict update() returned.
Outcome(op, from, to, status, reason, found, refresh, lookups, cycle) ==
    [op |-> op, from |-> from, to |-> to, status |-> status, reason |-> reason,
     rate |-> IF status = "ok" THEN found.rate ELSE None,
     updated_at |-> IF status \in {"ok", "StaleRatesError"} THEN found.updated_at ELSE None,
     via |-> found.via, refresh |-> refresh, lookups |-> lookups, cycle |-> cycle]

\* a try block that ignores a failed cycle and looks up again
AfterRefreshSwallow(cyc, c, first, pair_direct, pair_reverse, ttl_seconds, clock) ==
    LET again == Lookup(IF cyc.raised THEN c ELSE cyc.cache, pair_direct, pair_reverse)
        second == IF again.via = "none" THEN first ELSE again
    IN  [status |-> Classify(second, ttl_seconds, clock), reason |-> "",
         found |-> second, refresh |-> IF cyc.raised THEN "raised" ELSE "done",
         lookups |-> 2]

\* the try block of get_rate once run_once() has returned or raised, and the
\* final checks; c is the cache before the cycle and first what the first
\* lookup found.  The second lookup assigns rate and updated_at only in its
\* two branches: when neither is taken they keep the first lookup's values.
AfterRefresh(cyc, c, first, pair_direct, pair_reverse, ttl_seconds, clock) ==
    IF cyc.raised
    THEN [status |-> "ApiRequestError", reason |-> cyc.error,
          found |-> NotFound, refresh |-> "raised", lookups |-> 1]
    ELSE LET again == Lookup(cyc.cache, pair_direct, pair_reverse)
             second == IF again.via = "none" THEN first ELSE again
         IN  [status |-> Classify(second, ttl_seconds, clock), reason |-> "",
              found |-> second, refresh |-> "done", lookups |-> 2]

\* get_rate(from_code, to_code) on cache c, history h at clock t; the
\* refresh it may trigger fetches cFetched, fFetched and takes d seconds.
GetRate(from_code, to_code, c, h, t, ttl_seconds, cFetched, fFetched, d) ==
    LET from_cur == GetCurrency(from_code)
        to_cur == GetCurrency(to_code)
        pair_direct == PairKey(from_cur.code, to_cur.code)
        pair_reverse == PairKey(to_cur.code, from_cur.code)
        first == Lookup(c, pair_direct, pair_reverse)
        cyc == Update("none", cFetched, fFetched, c, h, t)
        after == AfterRefresh(cyc, c, first, pair_direct, pair_reverse, ttl_seconds, t + d)
    IN  IF ~from_cur.found
        THEN [cache |-> c, history |-> h, now |-> t,
              result |-> Outcome("get_rate", from_cur.code, to_cur.code,
                                 "CurrencyNotFoundError", from_cur.code,
                                 NotFound, "none", 0, None)]
        ELSE IF ~to_cur.found
        THEN [cache |-> c, history |-> h, now |-> t,
              result |-> Outcome("get_rate", from_cur.code, to_cur.code,
                                 "CurrencyNotFoundError", to_cur.code,
                                 NotFound, "none", 0, None)]
        ELSE IF ~NeedsRefresh(first, ttl_seconds, t)
        THEN [cache |-> c, history |-> h, now |-> t,
              result |-> Outcome("get_rate", from_cur.code, to_cur.code,
                                 Classify(first, ttl_seconds, t), "",
                                 first, "none", 1, None)]
        ELSE [cache |-> cyc.cache, history |-> cyc.history, now |-> t + d,
              result |-> Outcome("get_rate", from_cur.code, to_cur.code,
                                 after.status, after.reason, after.found,
                                 after.refresh, after.lookups, None)]

\* whether get_rate(from_code, to_code) reaches run_once() on cache c
CallsRunOnce(from_code, to_code, c, t, ttl_seconds) ==
    LET from_cur == GetCurrency(from_code)
        to_cur == GetCurrency(to_code)
    IN  /\ from_cur.found
        /\ to_cur.found
        /\ NeedsRefresh(Lookup(c, PairKey(from_cur.code, to_cur.code),
                               PairKey(to_cur.code, from_cur.code)),
                        ttl_seconds, t)

---------------------------------------------------------------------------
(* The inputs of the model *)

Two == <<2, 1>>

NetError == [net |-> "error", status |-> 0, body |-> NoBody]

Http(status, shape, obj) ==
    [net |-> "ok", status |-> status, body |-> [shape |-> shape, obj |-> obj]]

\* replies of the crypto upstream: failures, and payloads quoting bitcoin
\* at 0 and at 2
CryptoReplies ==
    {NetError, Http(500, "object", <<>>), Http(200, "invalid", <<>>),
     Http(200, "scalar", <<>>), Http(200, "object", <<>>)}
    \cup {Http(200, "object", [id \in {"bitcoin"} |-> [usd |-> r]]) :
            r \in {Zero, Two}}

FiatBody(res, base, rates) ==
    [result |-> res, base_code |-> base, conversion_rates |-> rates]

\* replies of the fiat upstream: failures, a USD table quoting EUR (0 or 2)
\* or the unsupported JPY, and a EUR table quoting USD
FiatReplies ==
    {NetError, Http(404, "object", <<>>), Http(200, "scalar", <<>>),
     Http(200, "object", FiatBody("error", "", None)),
     Http(200, "object", FiatBody("success", "USD", None))}
    \cup {Http(200, "object", FiatBody("success", b, <<<<"EUR", r>>>>)) :
            b \in {"", "USD"}, r \in {Zero, Two}}
    \cup {Http(200, "object", FiatBody("success", "USD", <<<<"JPY", Two>>>>)),
          Http(200, "object", FiatBody("success", "EUR", <<<<"USD", Two>>>>))}

\* what fetch_rates can return or raise on these replies
CryptoFetches == {CoinGeckoFetch(r) : r \in CryptoReplies}

FiatFetches(key) == {ExchangeRateFetch(r, key) : r \in FiatReplies}

\* seconds the fetches of a cycle inside get_rate take: none, or more than
\* the TTL
CycleDelays == {0, 2}

\* RATES_TTL_SECONDS, in the model's seconds
TtlSettings == {1}

Queries ==
    {<<"btc", "USD">>, <<"USD", "btc">>, <<"EUR", "USD">>, <<"USD", "USD">>,
     <<"XXX", "USD">>, <<"btc", "XXX">>}

---------------------------------------------------------------------------
(* The state machine *)

\* no call is pending
Idle == Outcome("idle", "", "", "ok", "", NotFound, "none", 0, None)

\* no rates.tmp
NoTmp == [exists |-> FALSE, data |-> None, size |-> 0, whole |-> FALSE]

\* rates.json holds one whole document and there is no rates.tmp
FilesAtRest == [json |-> [size |-> 0, whole |-> TRUE], tmp |-> NoTmp]

\* no scheduler thread was started
SchedOff == [pc |-> "off", stop |-> FALSE, fd |-> "none", data |-> None,
             failed |-> FALSE]

\* the main thread is in no get_rate call
MainIdle == [pc |-> "idle", fd |-> "none", data |-> None, query |-> <<>>,
             found |-> NotFound]

\* no portfolio was saved
NoWallets == <<>>

\* one thread, whole-file steps, no portfolio
AtRest ==
    /\ sched = SchedOff
    /\ main = MainIdle
    /\ files = FilesAtRest
    /\ wallets = NoWallets

Init ==
    /\ cache = EmptyCache
    /\ history = <<>>
    /\ now = 0
    /\ ttl \in TtlSettings
    /\ api_key = "key"
    /\ result = Idle
    /\ AtRest

\* the wall clock advances by a second
Tick ==
    /\ result = Idle
    /\ now < MaxClock
    /\ now' = now + 1
    /\ UNCHANGED <<cache, history, ttl, api_key, result, others>>

\* the caller takes the outcome of its call (the CLI prints it and reads
\* the next command; the scheduler loop goes to sleep)
Return ==
    /\ result # Idle
    /\ result' = Idle
    /\ UNCHANGED <<cache, history, now, ttl, api_key, others>>

\* run_once(source): the update command, and one turn of the scheduler loop
RunOnce(source, cFetched, fFetched) ==
    LET cyc == Update(source, cFetched, fFetched, cache, history, now)
    IN  /\ result = Idle
        /\ Len(cyc.history) <= MaxHistory
        /\ cache' = cyc.cache
        /\ history' = cyc.history
        /\ result' = Outcome("update", "", "",
                             IF cyc.raised THEN cyc.error ELSE "ok", "",
                             NotFound, IF cyc.raised THEN "raised" ELSE "done",
                             0, cyc.ret)
        /\ UNCHANGED <<now, ttl, api_key, others>>

UpdateAll ==
    \E cFetched \in CryptoFetches, fFetched \in FiatFetches(api_key) :
        RunOnce("none", cFetched, fFetched)

UpdateCrypto ==
    \E cFetched \in CryptoFetches : RunOnce("coingecko", cFetched, NoFiatFetch)

UpdateFiat ==
    \E fFetched \in FiatFetches(api_key) : RunOnce("exchangerate", NoCrypto, fFetched)

\* a get_rate call that returns or raises without reaching run_once()
GetRateCachedOf(queries) ==
    \E q \in queries :
        /\ result = Idle
        /\ ~CallsRunOnce(q[1], q[2], cache, now, ttl)
        /\ result' = GetRate(q[1], q[2], cache, history, now, ttl,
                             NoCrypto, NoFiatFetch, 0).result
        /\ UNCHANGED <<cache, history, now, ttl, api_key, others>>

GetRateCached == GetRateCachedOf(Queries)

\* a get_rate call that runs a refresh cycle
GetRateRefreshOf(queries) ==
    \E q \in queries :
        /\ result = Idle
        /\ CallsRunOnce(q[1], q[2], cache, now, ttl)
        /\ \E cFetched \in CryptoFetches, fFetched \in FiatFetches(api_key),
              d \in CycleDelays :
            LET out == GetRate(q[1], q[2], cache, history, now, ttl,
                               cFetched, fFetched, d)
            IN  /\ out.now <= MaxClock
                /\ Len(out.history) <= MaxHistory
                /\ cache' = out.cache
                /\ history' = out.history
                /\ now' = out.now
                /\ result' = out.result
                /\ UNCHANGED <<ttl, api_key, others>>

GetRateRefresh == GetRateRefreshOf(Queries)

Next ==
    \/ Tick
    \/ Return
    \/ UpdateAll
    \/ UpdateCrypto
    \/ UpdateFiat
    \/ GetRateCached
    \/ GetRateRefresh

Spec == Init /\ [][Next]_vars

---------------------------------------------------------------------------
(* The resolver on a rates.json that was there before the process started *)

\* rates.json files holding one BTC_USD quote stamped at second 0, by the
\* updater or by hand: updated_at present (with or without a trailing Z),
\* unparsable, or missing; last_refresh present or null
StoreFiles ==
    {[pairs |-> (PairKey("BTC", "USD") :>
                    [rate |-> Two, updated_at |-> u, source |-> "CoinGecko"]),
      last_refresh |-> r] :
        u \in {None, Unparsable, Iso(0), IsoZ(0)}, r \in {None, Iso(0)}}

\* DatabaseManager._init_files keeps an existing rates.json as it is
InitStore ==
    /\ cache \in StoreFiles
    /\ history = <<>>
    /\ now = 0
    /\ ttl \in 0..MaxTtl
    /\ api_key = "key"
    /\ result = Idle
    /\ AtRest

\* the calls made on such a store: the stored pair, read in either direction
StoreQueries == {<<"btc", "USD">>, <<"USD", "btc">>}

GetRateStoreCached == GetRateCachedOf(StoreQueries)

GetRateStoreRefresh == GetRateRefreshOf(StoreQueries)

NextStore ==
    \/ Tick
    \/ Return
    \/ GetRateStoreCached
    \/ GetRateStoreRefresh

SpecStore == InitStore /\ [][NextStore]_vars

---------------------------------------------------------------------------
(* The resolver's contract, stated on the cache alone *)

\* a get_rate call has just returned or raised; cache, history and now are
\* as the call left them
Called == result.op = "get_rate"

ValidCodes(r) == r.from \in Registry /\ r.to \in Registry

\* the key of the quote that answers from -> to in cache c: the direct pair
\* if cached, else the reverse pair if cached with a non-zero rate, else None
AnswerKey(c, from, to) ==
    IF <<from, to>> \in DOMAIN c.pairs THEN <<from, to>>
    ELSE IF <<to, from>> \in DOMAIN c.pairs /\ Truthy(c.pairs[<<to, from>>].rate)
    THEN <<to, from>>
    ELSE None

\* the rate that quote gives for from -> to
AnswerRate(c, from, to) ==
    IF AnswerKey(c, from, to) = <<from, to>> THEN c.pairs[<<from, to>>].rate
    ELSE Recip(c.pairs[<<to, from>>].rate)

\* the age of a quote's own updated_at is known and within the TTL
FreshAt(q, clock) ==
    /\ q.updated_at # None
    /\ Parses(q.updated_at)
    /\ clock - ParseIso(q.updated_at) <= ttl

\* from -> to is absent from c, or answered by a stale quote
AbsentOrStale(c, from, to, clock) ==
    \/ AnswerKey(c, from, to) = None
    \/ c.pairs[AnswerKey(c, from, to)].rate = None
    \/ ~FreshAt(c.pairs[AnswerKey(c, from, to)], clock)

---------------------------------------------------------------------------
(* Claims *)

\* C1: whenever get_rate(from, to) returns for from # to, the cached quote
\* it resolved from (direct or reverse) carries an updated_at that is at
\* most ttl seconds old at the time of the final check.
C1_NeverReturnsStaleQuote ==
    (Called /\ result.status = "ok" /\ result.from # result.to) =>
        /\ AnswerKey(cache, result.from, result.to) # None
        /\ FreshAt(cache.pairs[AnswerKey(cache, result.from, result.to)], now)

\* C1 witness: a rate returned after a refresh, at a clock past 0
C1_Witness ==
    /\ Called /\ result.status = "ok" /\ result.from # result.to
    /\ result.refresh = "done" /\ now > 0

\* C2: a get_rate call whose looked-up quote is absent or stale runs exactly
\* one refresh cycle and, the cycle having returned, looks the pair up
\* exactly once more; a call whose quote is fresh runs none.  No call runs
\* two cycles or looks up more than twice.
C2_ExactlyOneRefresh ==
    [][(result = Idle /\ result'.op = "get_rate" /\ ValidCodes(result')) =>
        /\ result'.lookups \in {1, 2}
        /\ AbsentOrStale(cache, result'.from, result'.to, now) =>
              /\ result'.refresh \in {"done", "raised"}
              /\ result'.refresh = "done" => result'.lookups = 2
        /\ ~AbsentOrStale(cache, result'.from, result'.to, now) =>
              /\ result'.refresh = "none"
              /\ result'.lookups = 1]_vars

\* C2 witness: a call that found a stale quote, refreshed and looked up again
C2_Witness ==
    /\ Called /\ result.refresh = "done" /\ result.lookups = 2
    /\ result.status = "StaleRatesError"

\* C3: when the requested pair is cached and not stale, get_rate returns
\* the cached rate, runs no refresh cycle and leaves cache and history as
\* they were.
C3_FreshHitIsReadOnly ==
    [][(/\ result = Idle /\ result'.op = "get_rate" /\ ValidCodes(result')
        /\ ~AbsentOrStale(cache, result'.from, result'.to, now)) =>
        /\ result'.status = "ok"
        /\ result'.rate = AnswerRate(cache, result'.from, result'.to)
        /\ result'.refresh = "none"
        /\ cache' = cache
        /\ history' = history
        /\ now' = now]_vars

\* C3 witness: a cached rate returned without a refresh, history not empty
C3_Witness ==
    /\ Called /\ result.status = "ok" /\ result.refresh = "none"
    /\ result.from # result.to /\ history # <<>>

\* C4: after the one refresh attempt, a pair that neither the direct nor
\* the reverse key answers fails with CurrencyNotFoundError, and a pair
\* answered by a quote that is still stale fails with StaleRatesError; the
\* stale rate is not returned.
C4_ErrorsAfterRefresh ==
    (Called /\ result.refresh = "done") =>
        /\ AnswerKey(cache, result.from, result.to) = None
              => result.status = "CurrencyNotFoundError"
        /\ (/\ AnswerKey(cache, result.from, result.to) # None
            /\ AbsentOrStale(cache, result.from, result.to, now))
              => (result.status = "StaleRatesError" /\ result.rate = None)

\* C4 divergence: USD -> BTC was answered by a stale BTC_USD, the refresh
\* overwrote it with rate 0, no pair yields a rate any more, and the call
\* fails with StaleRatesError on the values of the first lookup
C4_Diverges ==
    /\ Called /\ result.refresh = "done"
    /\ result.from = "USD" /\ result.to = "BTC"
    /\ AnswerKey(cache, "USD", "BTC") = None
    /\ result.status = "StaleRatesError"

\* C5: when the refresh cycle get_rate triggered raises, get_rate fails with
\* ApiRequestError carrying the exception's text: no rate, no
\* CurrencyNotFoundError, no StaleRatesError.
C5_CycleFailureIsApiRequestError ==
    (Called /\ result.refresh = "raised") =>
        /\ result.status = "ApiRequestError"
        /\ result.reason \in {"TypeError", "AttributeError"}
        /\ result.rate = None

\* C5 witness: the cycle of a call on a non-empty cache raised
C5_Witness ==
    /\ Called /\ result.refresh = "raised" /\ result.status = "ApiRequestError"
    /\ cache # EmptyCache

\* C6: get_rate with a from or to code the registry does not know fails
\* with CurrencyNotFoundError before any cache read, runs no refresh cycle
\* and leaves cache and history as they were.
C6_UnknownCodeIsRejectedFirst ==
    [][(result = Idle /\ result'.op = "get_rate" /\ ~ValidCodes(result')) =>
        /\ result'.status = "CurrencyNotFoundError"
        /\ result'.reason = IF result'.from \notin Registry THEN result'.from
                             ELSE result'.to
        /\ result'.lookups = 0
        /\ result'.refresh = "none"
        /\ cache' = cache
        /\ history' = history]_vars

\* C6 witness: an unknown to-code rejected while the cache holds quotes
C6_Witness ==
    /\ Called /\ result.to = "XXX" /\ result.status = "CurrencyNotFoundError"
    /\ cache # EmptyCache

\* C7: for every supported code C and every cache, get_rate(C, C) returns
\* rate 1.0 without reading the cache and without a refresh cycle.
C7_SameCodeIsOne ==
    (Called /\ ValidCodes(result) /\ result.from = result.to) =>
        /\ result.status = "ok"
        /\ result.rate = <<1, 1>>
        /\ result.lookups = 0
        /\ result.refresh = "none"

\* C7 divergence: get_rate(USD, USD) read the cache, ran a refresh cycle that
\* wrote quotes, and failed
C7_Diverges ==
    /\ Called /\ result.from = "USD" /\ result.to = "USD"
    /\ result.status = "CurrencyNotFoundError"
    /\ result.lookups = 2 /\ result.refresh = "done"
    /\ history # <<>>

\* C8: when the direct pair is absent and the reverse pair is cached, fresh,
\* with rate r # 0, get_rate returns 1/r and the reverse quote's updated_at.
C8_ReverseIsInverted ==
    (/\ Called /\ ValidCodes(result) /\ result.from # result.to
     /\ <<result.from, result.to>> \notin DOMAIN cache.pairs
     /\ <<result.to, result.from>> \in DOMAIN cache.pairs
     /\ Truthy(cache.pairs[<<result.to, result.from>>].rate)
     /\ FreshAt(cache.pairs[<<result.to, result.from>>], now)) =>
        /\ result.status = "ok"
        /\ result.rate = Recip(cache.pairs[<<result.to, result.from>>].rate)
        /\ result.rate # cache.pairs[<<result.to, result.from>>].rate
        /\ result.updated_at = cache.pairs[<<result.to, result.from>>].updated_at

\* C8 witness: EUR -> USD answered from USD_EUR
C8_Witness ==
    /\ Called /\ result.status = "ok" /\ result.via = "reverse"
    /\ result.from = "EUR" /\ result.to = "USD"


\* the quote that answers the last call's pair in the cache as it is now
Answer == cache.pairs[AnswerKey(cache, result.from, result.to)]

\* that quote carries a well-formed updated_at of its own
Dated ==
    /\ AnswerKey(cache, result.from, result.to) # None
    /\ Answer.updated_at # None
    /\ Parses(Answer.updated_at)

\* C9: the staleness test is a strict greater-than on whole seconds, for
\* every ttl >= 0: a quote updated exactly ttl seconds ago is not stale and
\* get_rate returns it; one updated ttl + 1 seconds ago is stale and, not
\* having been rewritten, is not returned.
C9_BoundaryIsStrict ==
    /\ ~IsStale(Iso(now - ttl), ttl, now)
    /\ ~IsStale(IsoZ(now - ttl), ttl, now)
    /\ IsStale(Iso(now - ttl - 1), ttl, now)
    /\ IsStale(IsoZ(now - ttl - 1), ttl, now)
    /\ (Called /\ ValidCodes(result) /\ Dated) =>
           /\ now - ParseIso(Answer.updated_at) = ttl => result.status = "ok"
           /\ now - ParseIso(Answer.updated_at) = ttl + 1 =>
                 result.status \in {"StaleRatesError", "ApiRequestError"}

\* C9 witness: a quote read exactly ttl > 0 seconds after its update
C9_Witness ==
    /\ Called /\ ValidCodes(result) /\ Dated
    /\ ttl > 0
    /\ now - ParseIso(Answer.updated_at) = ttl
    /\ result.status = "ok" /\ result.refresh = "none"

\* C10: a cached quote without an updated_at of its own is stale to
\* get_rate whatever last_refresh says: the call runs a refresh, and if the
\* quote still has no updated_at afterwards it fails with StaleRatesError
\* (ApiRequestError if the cycle raised) and returns no rate.
C10_MissingUpdatedAtIsStale ==
    (/\ Called /\ ValidCodes(result)
     /\ AnswerKey(cache, result.from, result.to) # None
     /\ Answer.updated_at = None) =>
        /\ result.refresh # "none"
        /\ result.status \in {"StaleRatesError", "ApiRequestError"}
        /\ result.rate = None

\* C10 divergence: a quote without updated_at returned as fresh, without a
\* refresh, on the strength of last_refresh
C10_Diverges ==
    /\ Called /\ ValidCodes(result)
    /\ AnswerKey(cache, result.from, result.to) # None
    /\ Answer.updated_at = None
    /\ result.status = "ok" /\ result.refresh = "none"
    /\ result.updated_at = cache.last_refresh

---------------------------------------------------------------------------
(* The refresh cycle on its own: run_once with what its adapters returned *)

Minus == <<-2, 1>>

\* replies of the crypto upstream to a cycle: failures, bitcoin quoted with
\* usd missing, 0, 2 or -2, bitcoin and ethereum quoted together, and
\* bitcoin quoted beside an ethereum rate that is no number
CycleCryptoReplies ==
    {NetError, Http(200, "scalar", <<>>)}
    \cup {Http(200, "object", [id \in {"bitcoin"} |-> [usd |-> r]]) :
            r \in {None, Zero, Two, Minus}}
    \cup {Http(200, "object", [id \in {"bitcoin", "ethereum"} |-> [usd |-> Two]])}
    \cup {Http(200, "object", [id \in {"bitcoin", "ethereum"} |->
                                  [usd |-> IF id = "bitcoin" THEN Two ELSE NotANumber]])}

\* replies of the fiat upstream to a cycle: a failure, a USD table quoting
\* EUR (missing, 0, 2), the unsupported JPY or the crypto code BTC, a EUR
\* table quoting USD, and a USD table with a rate that is no number
CycleFiatReplies ==
    {NetError}
    \cup {Http(200, "object", FiatBody("success", "USD", <<<<"EUR", r>>>>)) :
            r \in {None, Zero, Two}}
    \cup {Http(200, "object", FiatBody("success", "USD", <<<<c, Two>>>>)) :
            c \in {"JPY", "BTC"}}
    \cup {Http(200, "object", FiatBody("success", "EUR", <<<<"USD", Two>>>>))}
    \cup {Http(200, "object",
                FiatBody("success", "USD", <<<<"EUR", Two>>, <<"RUB", NotANumber>>>>))}

CycleCryptoFetches == {CoinGeckoFetch(r) : r \in CycleCryptoReplies}

CycleFiatFetches(key) == {ExchangeRateFetch(r, key) : r \in CycleFiatReplies}

\* What a cycle hands back, with what its adapters gave it: crypto and fiat
\* are the values fetch_rates returned ({} for an adapter that was not
\* called or raised), ret the dict update() returned.
CycleOutcome(source, cFetched, fFetched, cyc) ==
    [op |-> "cycle", source |-> source, raised |-> cyc.raised,
     crypto |-> IF CryptoEnabled(source) /\ ~cFetched.raised
                THEN cFetched.value ELSE NoCrypto.value,
     fiat |-> IF FiatEnabled(source) /\ ~cyc.raised
              THEN fFetched.value ELSE NoFiat,
     ret |-> cyc.ret]

\* run_once(source), keeping what the adapters returned
Cycle(source, cFetched, fFetched) ==
    LET cyc == Update(source, cFetched, fFetched, cache, history, now)
    IN  /\ result = Idle
        /\ Len(cyc.history) <= MaxHistory
        /\ cache' = cyc.cache
        /\ history' = cyc.history
        /\ result' = CycleOutcome(source, cFetched, fFetched, cyc)
        /\ UNCHANGED <<now, ttl, api_key, others>>

CycleAll ==
    \E cFetched \in CycleCryptoFetches, fFetched \in CycleFiatFetches(api_key) :
        Cycle("none", cFetched, fFetched)

CycleCrypto ==
    \E cFetched \in CycleCryptoFetches : Cycle("coingecko", cFetched, NoFiatFetch)

CycleFiat ==
    \E fFetched \in CycleFiatFetches(api_key) : Cycle("exchangerate", NoCrypto, fFetched)

NextCycle ==
    \/ Tick
    \/ Return
    \/ CycleAll
    \/ CycleCrypto
    \/ CycleFiat

SpecCycle == Init /\ [][NextCycle]_vars

---------------------------------------------------------------------------
(* The coordinator's contract, stated on a cycle's inputs and the cache *)

\* a step that is one whole refresh cycle
CycleStep == result = Idle /\ result'.op = "cycle"

\* a cycle has just returned (not raised)
CycleReturned == result.op = "cycle" /\ ~result.raised

SupportedPair(p) == Left(p) \in AllowedCodes /\ Right(p) \in AllowedCodes

\* the codes the crypto adapter returned with a rate
CryptoQuoted(crypto) == {c \in DOMAIN crypto : crypto[c].usd # None}

\* the positions of the fiat table that carry a rate other than 0
FiatQuoted(fiat) ==
    IF fiat.present
    THEN {i \in 1..Len(fiat.rates) :
            fiat.rates[i][2] # None /\ fiat.rates[i][2][1] # 0}
    ELSE {}

\* the pair key the coordinator files the fiat table's i-th entry under
FiatKey(fiat, i) == <<fiat.rates[i][1], fiat.base>>

\* C11: a cycle over both sources in which one adapter returned quotes and
\* the other returned no data persists the returned quotes, returns
\* ok = true and returns a non-empty warnings list.
C11_PartialFailureWarns ==
    (/\ CycleReturned /\ result.source = "none"
     /\ \/ CryptoQuoted(result.crypto) # {} /\ ~result.fiat.present
        \/ DOMAIN result.crypto = {} /\ FiatQuoted(result.fiat) # {}) =>
        /\ \A c \in CryptoQuoted(result.crypto) :
              /\ <<c, "USD">> \in DOMAIN cache.pairs
              /\ cache.pairs[<<c, "USD">>].updated_at = result.ret.last_refresh
        /\ \A i \in FiatQuoted(result.fiat) :
              /\ FiatKey(result.fiat, i) \in DOMAIN cache.pairs
              /\ cache.pairs[FiatKey(result.fiat, i)].updated_at = result.ret.last_refresh
        /\ result.ret.ok
        /\ result.ret.warnings # <<>>

\* C11 divergence: bitcoin was fetched and persisted, the fiat source gave
\* nothing, the cycle reports ok with no warning at all
C11_Diverges ==
    /\ CycleReturned /\ result.source = "none"
    /\ CryptoQuoted(result.crypto) = {"BTC"} /\ ~result.fiat.present
    /\ <<"BTC", "USD">> \in DOMAIN cache.pairs
    /\ result.ret.ok
    /\ result.ret.warnings = <<>>

\* C12: a cycle in which both adapters returned no data leaves the cache as
\* it was, pairs and last_refresh, and returns a warning for each source.
C12_TotalFailureKeepsCache ==
    [][(/\ CycleStep /\ ~result'.raised /\ result'.source = "none"
        /\ DOMAIN result'.crypto = {} /\ ~result'.fiat.present) =>
        /\ cache' = cache
        /\ Len(result'.ret.warnings) >= 2]_vars

\* C12 divergence: both adapters gave nothing, the retained pairs were
\* written back under a new last_refresh
C12_Diverges ==
    /\ CycleReturned /\ result.source = "none"
    /\ DOMAIN result.crypto = {} /\ ~result.fiat.present
    /\ DOMAIN cache.pairs # {}
    /\ cache.last_refresh = Iso(now)
    /\ \A p \in DOMAIN cache.pairs : cache.pairs[p].updated_at # Iso(now)
    /\ result.ret.warnings = <<>>

\* C13: a cycle that fetched no quote and retains none after garbage
\* collection writes nothing, returns ok = false and returns a warning
\* that nothing was updated.
C13_NothingToPersistWarns ==
    [][(/\ CycleStep /\ ~result'.raised
        /\ CryptoQuoted(result'.crypto) = {} /\ FiatQuoted(result'.fiat) = {}
        /\ \A p \in DOMAIN cache.pairs : ~SupportedPair(p)) =>
        /\ cache' = cache
        /\ result'.ret.ok = FALSE
        /\ result'.ret.warnings # <<>>]_vars

\* C13 divergence: nothing fetched on the empty cache, ok = false and an
\* empty warnings list
C13_Diverges ==
    /\ CycleReturned
    /\ cache = EmptyCache
    /\ result.ret.ok = FALSE /\ result.ret.updated_pairs = 0
    /\ result.ret.warnings = <<>>

\* C14: after a cycle has completed, no pair that was cached before it with
\* an unsupported left or right code is in the cache, whatever the adapters
\* returned and however many pairs the cache held.
C14_UnsupportedPairsDropped ==
    [][(CycleStep /\ ~result'.raised) =>
        \A p \in DOMAIN cache.pairs :
            ~SupportedPair(p) => p \notin DOMAIN cache'.pairs]_vars

\* C14 divergence: JPY_USD was the only entry, no adapter returned a quote,
\* the cycle completed and JPY_USD is still cached
C14_Diverges ==
    /\ CycleReturned
    /\ CryptoQuoted(result.crypto) = {} /\ ~result.fiat.present
    /\ DOMAIN cache.pairs = {<<"JPY", "USD">>}
    /\ cache.last_refresh # Iso(now)

\* the keys under which this cycle's adapters returned a usable quote
WrittenKeys(r) ==
    {<<c, "USD">> : c \in CryptoQuoted(r.crypto)}
    \cup {FiatKey(r.fiat, i) : i \in FiatQuoted(r.fiat)}

\* C15: a cycle leaves every cached pair with two supported legs, for which
\* no adapter returned a quote in this cycle, in the cache with the same
\* rate, updated_at and source; a pair that disappears has an unsupported leg.
C15_UnrefreshedPairsRetained ==
    [][CycleStep =>
        /\ \A p \in DOMAIN cache.pairs :
              (SupportedPair(p) /\ p \notin WrittenKeys(result')) =>
                  /\ p \in DOMAIN cache'.pairs
                  /\ cache'.pairs[p] = cache.pairs[p]
        /\ \A p \in DOMAIN cache.pairs :
              p \notin DOMAIN cache'.pairs => ~SupportedPair(p)]_vars

\* C15 witness: a cycle at a later time wrote EUR_USD and persisted the
\* cache, and BTC_USD, not quoted in this cycle, is there with its older
\* updated_at
C15_Witness ==
    /\ CycleReturned /\ result.ret.ok
    /\ WrittenKeys(result) = {<<"EUR", "USD">>}
    /\ cache.last_refresh = Iso(now)
    /\ <<"BTC", "USD">> \in DOMAIN cache.pairs
    /\ cache.pairs[<<"BTC", "USD">>].updated_at # Iso(now)
    /\ cache.pairs[<<"EUR", "USD">>].updated_at = Iso(now)

\* C16: after a completed cycle, for each code the crypto adapter returned
\* with a rate, the cache holds CODE_USD with that raw rate, the cycle's
\* timestamp and the crypto source tag.
C16_CryptoQuoteStored ==
    CycleReturned =>
        \A c \in CryptoQuoted(result.crypto) :
            /\ <<c, "USD">> \in DOMAIN cache.pairs
            /\ cache.pairs[<<c, "USD">>] =
                  [rate |-> result.crypto[c].usd, updated_at |-> Iso(now),
                   source |-> "CoinGecko"]

\* C16 divergence: the crypto adapter returned BTC = 2 and the cycle
\* completed, yet BTC_USD is held with the fiat table's inverted rate and
\* the fiat source tag
C16_Diverges ==
    /\ CycleReturned
    /\ "BTC" \in CryptoQuoted(result.crypto)
    /\ result.crypto["BTC"].usd = Two
    /\ <<"BTC", "USD">> \in DOMAIN cache.pairs
    /\ cache.pairs[<<"BTC", "USD">>].source = "ExchangeRate-API"
    /\ cache.pairs[<<"BTC", "USD">>].rate # Two

\* a * b = 1 for fractions a and b
IsInverseOf(a, b) == a[1] * b[1] = a[2] * b[2] /\ a[1] # 0

C18_StoredRatesPositive ==
    \A p \in DOMAIN cache.pairs :
        /\ cache.pairs[p].rate # None
        /\ cache.pairs[p].rate[1] > 0 /\ cache.pairs[p].rate[2] > 0

\* C18 divergence: a cycle has stored BTC_USD with rate 0
C18_Diverges ==
    /\ <<"BTC", "USD">> \in DOMAIN cache.pairs
    /\ cache.pairs[<<"BTC", "USD">>].rate = Zero
    /\ cache.pairs[<<"BTC", "USD">>].source = "CoinGecko"

\* C19: a get_rate(from, to) that succeeds with from # to returns the rate
\* of a cached quote, direct or inverted reverse, and that rate is not 0.
C19_NeverReturnsZero ==
    (Called /\ result.status = "ok" /\ result.from # result.to) =>
        /\ AnswerKey(cache, result.from, result.to) # None
        /\ result.rate = AnswerRate(cache, result.from, result.to)
        /\ result.rate # None
        /\ result.rate[1] # 0

\* C19 divergence: get_rate has returned rate 0 for BTC -> USD
C19_Diverges ==
    /\ Called /\ result.status = "ok"
    /\ result.from = "BTC" /\ result.to = "USD"
    /\ result.rate = Zero

\* the number of quotes a completed cycle writes: the usable ones returned
WrittenCount(r) ==
    Cardinality(CryptoQuoted(r.crypto)) + Cardinality(FiatQuoted(r.fiat))

---------------------------------------------------------------------------
(* The adapters on their own: one fetch_rates call per step, with or        *)
(* without the fiat credential, next to whole cycles                          *)

\* HTTP statuses the upstreams answer with
AdapterStatuses == {200, 204, 404, 500}

\* a CoinGecko payload quoting the given coin ids at 2
CoinPayload(ids) == [id \in ids |-> [usd |-> Two]]

\* bodies of the crypto upstream: not JSON, a JSON number, {}, and objects
\* keyed by coin ids, mapped ones and one that is not in CRYPTO_ID_MAP
AdapterCryptoBodies ==
    {[shape |-> "invalid", obj |-> <<>>], [shape |-> "scalar", obj |-> <<>>],
     [shape |-> "object", obj |-> <<>>]}
    \cup {[shape |-> "object", obj |-> CoinPayload(ids)] :
            ids \in {{"bitcoin"}, {"dogecoin"}, {"bitcoin", "dogecoin"},
                     {"ethereum", "solana"}}}

\* bodies of the fiat upstream: not JSON, a JSON number, an error object, a
\* success object without conversion_rates, and tables with and without
\* base_code
AdapterFiatBodies ==
    {[shape |-> "invalid", obj |-> <<>>], [shape |-> "scalar", obj |-> <<>>],
     [shape |-> "object", obj |-> FiatBody("error", "", None)],
     [shape |-> "object", obj |-> FiatBody("success", "USD", None)]}
    \cup {[shape |-> "object", obj |-> FiatBody("success", b, <<<<"EUR", Two>>>>)] :
            b \in {"", "USD"}}

AdapterCryptoReplies ==
    {NetError} \cup {[net |-> "ok", status |-> st, body |-> b] :
                        st \in AdapterStatuses, b \in AdapterCryptoBodies}

AdapterFiatReplies ==
    {NetError} \cup {[net |-> "ok", status |-> st, body |-> b] :
                        st \in AdapterStatuses, b \in AdapterFiatBodies}

\* whether ExchangeRateClient.fetch_rates gets as far as requests.get
FiatRequests(key) == key # ""

\* what one fetch_rates call leaves to its caller: the upstream's reply,
\* whether a request went out, and the value returned or exception raised
FetchOutcome(adapter, reply, requested, fetched) ==
    [op |-> "fetch", adapter |-> adapter, reply |-> reply,
     requested |-> requested, raised |-> fetched.raised,
     error |-> fetched.error, value |-> fetched.value]

\* EXCHANGERATE_API_KEY is read from the environment and may be empty
InitAdapters ==
    /\ cache = EmptyCache
    /\ history = <<>>
    /\ now = 0
    /\ ttl \in TtlSettings
    /\ api_key \in {"", "key"}
    /\ result = Idle
    /\ AtRest

\* CoinGeckoClient().fetch_rates()
FetchCrypto ==
    \E reply \in AdapterCryptoReplies :
        /\ result = Idle
        /\ result' = FetchOutcome("coingecko", reply, TRUE, CoinGeckoFetch(reply))
        /\ UNCHANGED <<cache, history, now, ttl, api_key, others>>

\* ExchangeRateClient().fetch_rates()
FetchFiat ==
    \E reply \in AdapterFiatReplies :
        /\ result = Idle
        /\ result' = FetchOutcome("exchangerate", reply, FiatRequests(api_key),
                                  ExchangeRateFetch(reply, api_key))
        /\ UNCHANGED <<cache, history, now, ttl, api_key, others>>

\* a whole cycle over both sources
AdapterCycle ==
    \E cFetched \in CryptoFetches, fFetched \in FiatFetches(api_key) :
        Cycle("none", cFetched, fFetched)

NextAdapters == Tick \/ Return \/ FetchCrypto \/ FetchFiat \/ AdapterCycle

SpecAdapters == InitAdapters /\ [][NextAdapters]_vars

\* the reply is one of the failures the adapters are to absorb: no answer,
\* a status outside 2xx, a body that is no JSON, or JSON of another shape
\* than the object expected
FailureReply(reply) ==
    \/ reply.net = "error"
    \/ ~(200 <= reply.status /\ reply.status < 300)
    \/ reply.body.shape \in {"invalid", "scalar"}

\* fetch_rates has returned the empty mapping
ReturnedEmpty(r) ==
    /\ ~r.raised
    /\ IF r.adapter = "coingecko" THEN r.value = NoCrypto.value
       ELSE r.value = NoFiat

\* C21: a fetch whose upstream call ended in a network error, a non-2xx
\* status, a body that is not JSON or a payload of unexpected shape does not
\* raise and returns the empty mapping.
C21_AdaptersNeverRaise ==
    (result.op = "fetch" /\ FailureReply(result.reply)) => ReturnedEmpty(result)

\* C21 divergence: a 2xx answer whose body is a JSON number made
\* CoinGeckoClient.fetch_rates raise
C21_Diverges ==
    /\ result.op = "fetch" /\ result.adapter = "coingecko"
    /\ result.reply.net = "ok" /\ result.reply.status = 200
    /\ result.reply.body.shape = "scalar"
    /\ result.raised /\ result.error = "TypeError"

\* C22: without the fiat credential ExchangeRateClient.fetch_rates returns
\* the empty result and sends no request, and a cycle over both sources
\* returns a non-empty warnings list.
C22_MissingKeySkipsAndWarns ==
    /\ (result.op = "fetch" /\ result.adapter = "exchangerate" /\ api_key = "") =>
          (~result.requested /\ ReturnedEmpty(result))
    /\ (CycleReturned /\ result.source = "none" /\ api_key = "") =>
          result.ret.warnings # <<>>

\* C22 divergence: a cycle without the credential has completed with
\* bitcoin stored, nothing from the fiat source and no warning
C22_Diverges ==
    /\ CycleReturned /\ result.source = "none" /\ api_key = ""
    /\ ~result.fiat.present
    /\ <<"BTC", "USD">> \in DOMAIN cache.pairs
    /\ result.ret.warnings = <<>>

\* the upstream answered 2xx with a JSON object
AnsweredObject(reply) ==
    /\ reply.net = "ok"
    /\ 200 <= reply.status /\ reply.status < 300
    /\ reply.body.shape = "object"

\* the coin ids of the configuration
CoinIds == {CRYPTO_ID_MAP[c] : c \in DOMAIN CRYPTO_ID_MAP}

\* C23: what the crypto adapter returns for a payload holds an entry for
\* code C exactly when the payload holds C's coin id, that entry is the
\* payload's value for the id, and every key is a currency code, none a
\* coin id.
C23_CryptoKeyedByCode ==
    (/\ result.op = "fetch" /\ result.adapter = "coingecko"
     /\ AnsweredObject(result.reply)) =>
        LET payload == result.reply.body.obj
        IN  /\ ~result.raised
            /\ \A c \in DOMAIN CRYPTO_ID_MAP :
                  /\ (c \in DOMAIN result.value) = (CRYPTO_ID_MAP[c] \in DOMAIN payload)
                  /\ c \in DOMAIN result.value =>
                        result.value[c] = payload[CRYPTO_ID_MAP[c]]
            /\ DOMAIN result.value \subseteq DOMAIN CRYPTO_ID_MAP
            /\ DOMAIN result.value \cap (CoinIds \cup DOMAIN payload) = {}

\* C23 witness: a payload with bitcoin and an id outside the map came back
\* as a single entry under BTC
C23_Witness ==
    /\ result.op = "fetch" /\ result.adapter = "coingecko"
    /\ AnsweredObject(result.reply)
    /\ DOMAIN result.reply.body.obj = {"bitcoin", "dogecoin"}
    /\ DOMAIN result.value = {"BTC"}
    /\ result.value["BTC"] = [usd |-> Two]

---------------------------------------------------------------------------
(* Staleness over time *)

\* get_rate's verdict on the cached pair p of cache c at the given clock:
\* the age of its updated_at, or of last_refresh when it has none
StaleIn(c, p, clock) ==
    IsStale(OrElse(c.pairs[p].updated_at, c.last_refresh), ttl, clock)

\* C24: a cached pair that get_rate judges stale is judged fresh after a
\* step only if that step wrote a quote with a new updated_at under its key.
C24_StaleNeverSelfHeals ==
    [][\A p \in DOMAIN cache.pairs :
          (/\ StaleIn(cache, p, now)
           /\ p \in DOMAIN cache'.pairs
           /\ ~StaleIn(cache', p, now')) =>
              /\ cache'.pairs[p].updated_at # None
              /\ cache'.pairs[p].updated_at # cache.pairs[p].updated_at]_vars

\* C24 divergence: get_rate ran a cycle for a stale BTC_USD without an
\* updated_at, the cycle wrote no quote under that key, and get_rate
\* returned the pair as fresh, dated by the last_refresh the cycle set
C24_Diverges ==
    /\ Called /\ result.status = "ok" /\ result.refresh = "done"
    /\ result.from = "BTC" /\ result.to = "USD"
    /\ cache.pairs[<<"BTC", "USD">>].updated_at = None
    /\ cache.last_refresh = result.updated_at
    /\ result.updated_at # Iso(0)

---------------------------------------------------------------------------
(* Two threads: the scheduler's loop and a get_rate call on the main        *)
(* thread, with save_rates_cache taken apart into open, write and replace.    *)
(* A document is smaller than the file buffer, so json.dump reaches the file *)
(* as one write when the with-block closes it.  The appends to               *)
(* exchange_rates.json are taken as whole steps.                             *)

\* the length of a rates.json document, counted in pairs
DocSize(data) == Cardinality(DOMAIN data.pairs)

\* what get_rates_cache returns while rates.json holds no whole document:
\* _read_json gives {} on a JSONDecodeError
Undecodable == EmptyCache

\* open(temp, "w"): rates.tmp is created, or truncated if it is there
OpenTmp(f) ==
    [f EXCEPT !.tmp = [exists |-> TRUE, data |-> None, size |-> 0, whole |-> FALSE]]

\* writing document data from offset 0 into a file of the given size: the
\* file keeps the tail of a longer earlier content
Overwrite(old_size, data) ==
    [size |-> IF DocSize(data) >= old_size THEN DocSize(data) ELSE old_size,
     whole |-> DocSize(data) >= old_size]

\* the write and close of the with-block through a descriptor that was
\* opened on rates.tmp; fd tells which name that file has by now
WriteThrough(f, fd, data) ==
    IF fd = "tmp"
    THEN [f EXCEPT !.tmp = [exists |-> TRUE, data |-> data,
                            size |-> Overwrite(f.tmp.size, data).size,
                            whole |-> Overwrite(f.tmp.size, data).whole]]
    ELSE IF fd = "json"
    THEN [f EXCEPT !.json = Overwrite(f.json.size, data)]
    ELSE f

\* rates.json as get_rates_cache reads it after that write
ViewAfterWrite(f, fd, data, view) ==
    IF fd = "json"
    THEN IF Overwrite(f.json.size, data).whole THEN data ELSE Undecodable
    ELSE view

\* os.replace(temp, path): rates.tmp becomes rates.json
ReplaceTmp(f) == [json |-> [size |-> f.tmp.size, whole |-> f.tmp.whole], tmp |-> NoTmp]

\* rates.json as get_rates_cache reads it after the replace
ViewAfterReplace(f) == IF f.tmp.whole THEN f.tmp.data ELSE Undecodable

\* the name an open descriptor's file goes by after another thread's replace
Renamed(fd) ==
    IF fd = "tmp" THEN "json" ELSE IF fd = "json" THEN "orphan" ELSE fd

\* a loop without the except clause
AfterCycleUncaught(raised) == IF raised THEN "exited" ELSE "wait"

\* where _run_loop goes after update(): the except clause catches whatever
\* the cycle raised
AfterCycle(raised) == "wait"

\* what the upstreams give the threads' cycles: nothing, a body that makes
\* the adapter raise, bitcoin, or bitcoin and ethereum
ThreadCryptoFetches ==
    {CoinGeckoFetch(r) :
        r \in {NetError, Http(200, "scalar", <<>>),
               Http(200, "object", CoinPayload({"bitcoin"})),
               Http(200, "object", CoinPayload({"bitcoin", "ethereum"}))}}

\* the pairs the main thread asks for
ThreadQueries == {<<"btc", "USD">>, <<"eth", "USD">>}

\* a rates.json left by an earlier run: BTC_USD, written at second 0; the
\* scheduler has just been started
InitThreads ==
    /\ cache = [pairs |-> (PairKey("BTC", "USD") :>
                              [rate |-> Two, updated_at |-> Iso(0),
                               source |-> "CoinGecko"]),
                last_refresh |-> Iso(0)]
    /\ history = <<>>
    /\ now = 0
    /\ ttl \in TtlSettings
    /\ api_key = "key"
    /\ result = Idle
    /\ sched = [SchedOff EXCEPT !.pc = "test"]
    /\ main = MainIdle
    /\ files = [json |-> [size |-> 1, whole |-> TRUE], tmp |-> NoTmp]
    /\ wallets = NoWallets

\* while not self._stop_event.is_set()
SchedTest ==
    /\ sched.pc = "test"
    /\ sched' = [sched EXCEPT !.pc = IF sched.stop THEN "exited" ELSE "cycle"]
    /\ UNCHANGED <<cache, history, now, ttl, api_key, result, main, files, wallets>>

\* self.updater.update() up to save_rates_cache: fetch, read rates.json,
\* merge, append the history
SchedCycle ==
    \E cFetched \in ThreadCryptoFetches :
        LET cyc == Update("none", cFetched, NoFiatFetch, cache, history, now)
        IN  /\ sched.pc = "cycle"
            /\ Len(cyc.history) <= MaxHistory
            /\ history' = cyc.history
            /\ sched' = IF cyc.raised
                        THEN [sched EXCEPT !.pc = AfterCycle(TRUE), !.failed = TRUE]
                        ELSE IF cyc.ret.ok
                        THEN [sched EXCEPT !.pc = "open", !.data = cyc.cache,
                                           !.failed = FALSE]
                        ELSE [sched EXCEPT !.pc = AfterCycle(FALSE), !.failed = FALSE]
            /\ UNCHANGED <<cache, now, ttl, api_key, result, main, files, wallets>>

\* _write_json: with open(temp, "w") as f
SchedOpen ==
    /\ sched.pc = "open"
    /\ files' = OpenTmp(files)
    /\ sched' = [sched EXCEPT !.pc = "write", !.fd = "tmp"]
    /\ UNCHANGED <<cache, history, now, ttl, api_key, result, main, wallets>>

\* _write_json: json.dump(data, f) and the end of the with-block
SchedWrite ==
    /\ sched.pc = "write"
    /\ files' = WriteThrough(files, sched.fd, sched.data)
    /\ cache' = ViewAfterWrite(files, sched.fd, sched.data, cache)
    /\ sched' = [sched EXCEPT !.pc = "replace", !.fd = "none"]
    /\ UNCHANGED <<history, now, ttl, api_key, result, main, wallets>>

\* _write_json: os.replace(temp, path); FileNotFoundError if another thread
\* has renamed rates.tmp away
SchedReplace ==
    /\ sched.pc = "replace"
    /\ IF files.tmp.exists
       THEN /\ files' = ReplaceTmp(files)
            /\ cache' = ViewAfterReplace(files)
            /\ main' = [main EXCEPT !.fd = Renamed(main.fd)]
            /\ sched' = [sched EXCEPT !.pc = AfterCycle(FALSE), !.data = None]
       ELSE /\ sched' = [sched EXCEPT !.pc = AfterCycle(TRUE), !.data = None,
                                      !.failed = TRUE]
            /\ UNCHANGED <<cache, files, main>>
    /\ UNCHANGED <<history, now, ttl, api_key, result, wallets>>

\* self._stop_event.wait(self.interval)
SchedWait ==
    /\ sched.pc = "wait"
    /\ sched' = [sched EXCEPT !.pc = "test"]
    /\ UNCHANGED <<cache, history, now, ttl, api_key, result, main, files, wallets>>

\* RatesScheduler.stop() sets the event
SchedStop ==
    /\ sched.pc \notin {"off", "exited"}
    /\ ~sched.stop
    /\ sched' = [sched EXCEPT !.stop = TRUE]
    /\ UNCHANGED <<cache, history, now, ttl, api_key, result, main, files, wallets>>

\* the steps of the scheduler thread
SchedStep ==
    SchedTest \/ SchedCycle \/ SchedOpen \/ SchedWrite \/ SchedReplace \/ SchedWait

\* what a get_rate call of the main thread hands back
MainOutcome(status, reason, found, refresh, lookups) ==
    Outcome("get_rate", GetCurrency(main.query[1]).code,
            GetCurrency(main.query[2]).code, status, reason, found, refresh,
            lookups, None)

\* get_rate up to its first lookup: it returns from the cache, or goes on
\* to run_once()
MainCall ==
    \E q \in ThreadQueries :
        LET pair_direct == PairKey(GetCurrency(q[1]).code, GetCurrency(q[2]).code)
            pair_reverse == PairKey(GetCurrency(q[2]).code, GetCurrency(q[1]).code)
            first == Lookup(cache, pair_direct, pair_reverse)
        IN  /\ main.pc = "idle" /\ result = Idle
            /\ IF NeedsRefresh(first, ttl, now)
               THEN /\ main' = [main EXCEPT !.pc = "cycle", !.query = q,
                                            !.found = first]
                    /\ UNCHANGED result
               ELSE /\ result' = Outcome("get_rate", GetCurrency(q[1]).code,
                                         GetCurrency(q[2]).code,
                                         Classify(first, ttl, now), "", first,
                                         "none", 1, None)
                    /\ UNCHANGED main
            /\ UNCHANGED <<cache, history, now, ttl, api_key, sched, files, wallets>>

\* run_once() inside get_rate, up to save_rates_cache
MainCycle ==
    \E cFetched \in ThreadCryptoFetches :
        LET cyc == Update("none", cFetched, NoFiatFetch, cache, history, now)
        IN  /\ main.pc = "cycle"
            /\ Len(cyc.history) <= MaxHistory
            /\ history' = cyc.history
            /\ IF cyc.raised
               THEN /\ result' = MainOutcome("ApiRequestError", cyc.error, NotFound,
                                             "raised", 1)
                    /\ main' = MainIdle
               ELSE /\ main' = IF cyc.ret.ok
                               THEN [main EXCEPT !.pc = "open", !.data = cyc.cache]
                               ELSE [main EXCEPT !.pc = "reread"]
                    /\ UNCHANGED result
            /\ UNCHANGED <<cache, now, ttl, api_key, sched, files, wallets>>

MainOpen ==
    /\ main.pc = "open"
    /\ files' = OpenTmp(files)
    /\ main' = [main EXCEPT !.pc = "write", !.fd = "tmp"]
    /\ UNCHANGED <<cache, history, now, ttl, api_key, result, sched, wallets>>

MainWrite ==
    /\ main.pc = "write"
    /\ files' = WriteThrough(files, main.fd, main.data)
    /\ cache' = ViewAfterWrite(files, main.fd, main.data, cache)
    /\ main' = [main EXCEPT !.pc = "replace", !.fd = "none"]
    /\ UNCHANGED <<history, now, ttl, api_key, result, sched, wallets>>

\* os.replace in the main thread; its FileNotFoundError leaves get_rate as
\* ApiRequestError
MainReplace ==
    /\ main.pc = "replace"
    /\ IF files.tmp.exists
       THEN /\ files' = ReplaceTmp(files)
            /\ cache' = ViewAfterReplace(files)
            /\ sched' = [sched EXCEPT !.fd = Renamed(sched.fd)]
            /\ main' = [main EXCEPT !.pc = "reread", !.data = None]
            /\ UNCHANGED result
       ELSE /\ result' = MainOutcome("ApiRequestError", "FileNotFoundError",
                                     NotFound, "raised", 1)
            /\ main' = MainIdle
            /\ UNCHANGED <<cache, files, sched>>
    /\ UNCHANGED <<history, now, ttl, api_key, wallets>>

\* the second read of rates.json, the second lookup and the final checks
MainReread ==
    LET pair_direct == PairKey(GetCurrency(main.query[1]).code,
                               GetCurrency(main.query[2]).code)
        pair_reverse == PairKey(GetCurrency(main.query[2]).code,
                                GetCurrency(main.query[1]).code)
        after == AfterRefresh([raised |-> FALSE, error |-> "", cache |-> cache],
                              cache, main.found, pair_direct, pair_reverse,
                              ttl, now)
    IN  /\ main.pc = "reread"
        /\ result' = MainOutcome(after.status, after.reason, after.found,
                                 after.refresh, after.lookups)
        /\ main' = MainIdle
        /\ UNCHANGED <<cache, history, now, ttl, api_key, sched, files, wallets>>

\* the steps of the main thread
MainStep ==
    MainCall \/ MainCycle \/ MainOpen \/ MainWrite \/ MainReplace \/ MainReread

\* the threads race within one second: the clock stands still
NextThreads == Return \/ SchedStep \/ SchedStop \/ MainStep

SpecThreads == InitThreads /\ [][NextThreads]_vars

\* the scheduler thread is scheduled again and again
SpecThreadsFair == SpecThreads /\ WF_vars(SchedStep)

---------------------------------------------------------------------------
(* Claims about the threads.                                                 *)

\* C25: in the scheduler's loop a cycle that raised does not end the loop:
\* unless stop is requested, another cycle is attempted after it.
C25_FailedCycleIsFollowed ==
    sched.failed ~> (sched.pc = "cycle" \/ sched.stop)

\* a cycle of the scheduler has raised and the loop is in its wait
C25_Witness == sched.failed /\ sched.pc = "wait" /\ ~sched.stop

\* C26: a read of rates.json that runs beside the cycles of the scheduler
\* and of the resolver finds a complete document: whenever the resolver is
\* at one of its reads, rates.json holds one whole cache.
C26_ReadsSeeWholeCache ==
    main.pc \in {"idle", "reread"} => files.json.whole

\* get_rate has read a rates.json that holds the head of one document and
\* the tail of another, and so has not found BTC_USD, which no cycle removed
C26_Diverges ==
    /\ result # Idle
    /\ result.op = "get_rate"
    /\ result.from = "BTC"
    /\ result.status = "CurrencyNotFoundError"
    /\ ~files.json.whole

---------------------------------------------------------------------------
(* Claims about the result of a cycle.                                       *)

\* C28: the result of a cycle gives updated_pairs as the number of pairs of
\* the cache after the merge, and for each source the number of that
\* source's quotes the cycle wrote; a quote skipped for a missing or zero
\* rate is not counted.
C28_ResultCountsWrittenQuotes ==
    CycleReturned =>
        /\ result.ret.ok => result.ret.updated_pairs = Cardinality(DOMAIN cache.pairs)
        /\ result.ret.sources.coingecko = Cardinality(CryptoQuoted(result.crypto))
        /\ result.ret.sources.exchangerate = Cardinality(FiatQuoted(result.fiat))

\* a cycle has saved a cache and reports more quotes of a source than it
\* wrote from that source
C28_Diverges ==
    /\ CycleReturned
    /\ result.ret.ok
    /\ result.ret.updated_pairs = Cardinality(DOMAIN cache.pairs)
    /\ \/ result.ret.sources.coingecko > Cardinality(CryptoQuoted(result.crypto))
       \/ result.ret.sources.exchangerate > Cardinality(FiatQuoted(result.fiat))

---------------------------------------------------------------------------
(* get_all_rates, on caches written by cycles.                               *)

\* a key of the returned mapping: like a pair key, the string is kept as
\* its parts between underscores, so "BTC" is <<"BTC">>
CodeKey(code) == <<code>>

\* RatesStorage.get_all_rates: the pairs based on USD whose rate is truthy,
\* under their code
GetAllRates(c) ==
    [k \in {CodeKey(Left(p)) : p \in {q \in DOMAIN c.pairs :
                                        Right(q) = "USD" /\ Truthy(c.pairs[q].rate)}}
        |-> c.pairs[PairKey(k[1], "USD")].rate]

\* what the upstreams give the cycles here: no crypto quote, one, or a zero one,
\* a fiat table based on USD or on EUR
RatesCryptoFetches ==
    {CoinGeckoFetch(NetError)}
    \cup {CoinGeckoFetch(Http(200, "object", [bitcoin |-> [usd |-> r]])) :
            r \in {Two, Zero}}

RatesFiatFetches ==
    {ExchangeRateFetch(r, "key") :
        r \in {NetError,
               Http(200, "object", FiatBody("success", "USD", <<<<"EUR", Two>>>>)),
               Http(200, "object", FiatBody("success", "EUR", <<<<"USD", Two>>>>)),
               Http(200, "object", FiatBody("success", "EUR", <<<<"GBP", Two>>>>))}}

RatesCycle ==
    \E cFetched \in RatesCryptoFetches, fFetched \in RatesFiatFetches :
        Cycle("none", cFetched, fFetched)

\* usecases.get_all_rates()
GetAllRatesCall ==
    /\ result = Idle
    /\ result' = [op |-> "get_all_rates", value |-> GetAllRates(cache)]
    /\ UNCHANGED <<cache, history, now, ttl, api_key, others>>

NextRates == Tick \/ Return \/ RatesCycle \/ GetAllRatesCall

SpecRates == Init /\ [][NextRates]_vars

\* C27: get_all_rates returns a mapping keyed by pair key that holds
\* exactly the cached pairs CODE_USD with their stored rates; pairs of
\* another base are left out and nothing is derived from a reverse pair.
C27_AllRatesAreUsdPairs ==
    result.op = "get_all_rates" =>
        /\ DOMAIN result.value = {p \in DOMAIN cache.pairs : Right(p) = "USD"}
        /\ \A p \in DOMAIN result.value : result.value[p] = cache.pairs[p].rate

\* get_all_rates has answered for a cache with a pair CODE_USD, and the
\* answer has no entry under that pair key
C27_Diverges ==
    /\ result.op = "get_all_rates"
    /\ \E p \in DOMAIN cache.pairs :
        /\ Right(p) = "USD"
        /\ p \notin DOMAIN result.value

---------------------------------------------------------------------------
(* buy and sell.  Amounts, rates and balances are exact fractions <<n, d>>   *)
(* in lowest terms with d > 0; the floats of the code are taken as exact.    *)
(* <<0, 0>> is float("nan"), which the command line takes as an amount.      *)

One == <<1, 1>>

NaN == <<0, 0>>

\* no balance is taken above this many units
MaxBalance == 8

IsNaN(q) == q[2] = 0

Four == <<4, 1>>

RECURSIVE Gcd(_, _)
Gcd(a, b) == IF b = 0 THEN a ELSE Gcd(b, a % b)

\* a fraction in lowest terms
Norm(q) ==
    LET g == Gcd(IF q[1] < 0 THEN -q[1] ELSE q[1], q[2])
    IN  <<q[1] \div g, q[2] \div g>>

\* amount * rate
Times(p, q) ==
    IF IsNaN(p) \/ IsNaN(q) THEN NaN ELSE Norm(<<p[1] * q[1], p[2] * q[2]>>)

\* self._balance += amount
Plus(p, q) ==
    IF IsNaN(p) \/ IsNaN(q) THEN NaN
    ELSE Norm(<<p[1] * q[2] + q[1] * p[2], p[2] * q[2]>>)

\* self._balance -= amount
Less(p, q) ==
    IF IsNaN(p) \/ IsNaN(q) THEN NaN
    ELSE Norm(<<p[1] * q[2] - q[1] * p[2], p[2] * q[2]>>)

\* p < q, false when either is nan
Below(p, q) == ~IsNaN(p) /\ ~IsNaN(q) /\ p[1] * q[2] < q[1] * p[2]

\* the balance of the wallet of a code; a wallet made by
\* get_or_create_wallet starts at 0.0
Balance(w, code) == IF code \in DOMAIN w THEN w[code] ELSE Zero

\* the wallets with the wallet of code set to a balance
WithBalance(w, code, balance) ==
    [c \in DOMAIN w \cup {code} |-> IF c = code THEN balance ELSE w[c]]

\* Wallet._validate_amount and the first test of buy and sell: what
\* amount <= 0 lets through
ValidAmount(amount) == IsNaN(amount) \/ amount[1] > 0

\* amount > 0
Positive(amount) == ~IsNaN(amount) /\ amount[1] > 0

\* buy from line 107 on: the portfolio, the cost, the two wallet operations
BuyWallets(w, code, amount, rate) ==
    LET cost_usd == Times(amount, rate)
        withdrawn == WithBalance(w, "USD", Less(Balance(w, "USD"), cost_usd))
        deposited == WithBalance(withdrawn, code, Plus(Balance(withdrawn, code), amount))
    IN  IF Below(Balance(w, "USD"), cost_usd)
        THEN [status |-> "InsufficientFundsError", wallets |-> w]
        ELSE IF ~ValidAmount(cost_usd)
        THEN [status |-> "ValidationError", wallets |-> w]
        ELSE [status |-> "ok", wallets |-> deposited]

\* sell from line 149 on
SellWallets(w, code, amount, rate) ==
    LET revenue == Times(amount, rate)
        withdrawn == WithBalance(w, code, Less(Balance(w, code), amount))
        deposited == WithBalance(withdrawn, "USD", Plus(Balance(withdrawn, "USD"), revenue))
    IN  IF w = NoWallets \/ code \notin DOMAIN w
        THEN [status |-> "ValidationError", wallets |-> w]
        ELSE IF Below(w[code], amount)
        THEN [status |-> "InsufficientFundsError", wallets |-> w]
        ELSE IF ~ValidAmount(revenue)
        THEN [status |-> "ValidationError", wallets |-> w]
        ELSE [status |-> "ok", wallets |-> deposited]

\* what buy and sell hand back, with what their get_rate did
TradeOutcome(op, code, amount, status, quote) ==
    [op |-> op, code |-> code, amount |-> amount, status |-> status,
     rate |-> quote.rate, refresh |-> quote.refresh]

\* a trade: the amount check, get_currency, get_rate(code), then the wallets
Trade(op, currency_code, amount, cFetched, fFetched, d) ==
    LET cur == GetCurrency(currency_code)
        out == GetRate(cur.code, "USD", cache, history, now, ttl, cFetched, fFetched, d)
        moved == IF op = "buy"
                 THEN BuyWallets(wallets, cur.code, amount, out.result.rate)
                 ELSE SellWallets(wallets, cur.code, amount, out.result.rate)
    IN  /\ result = Idle
        /\ IF ~ValidAmount(amount)
           THEN /\ result' = TradeOutcome(op, cur.code, amount, "ValidationError",
                                          Idle)
                /\ UNCHANGED <<cache, history, now, wallets>>
           ELSE /\ out.now <= MaxClock
                /\ Len(out.history) <= MaxHistory
                /\ cache' = out.cache
                /\ history' = out.history
                /\ now' = out.now
                /\ IF out.result.status # "ok"
                   THEN /\ result' = TradeOutcome(op, cur.code, amount,
                                                  out.result.status, out.result)
                        /\ UNCHANGED wallets
                   ELSE /\ \A c \in DOMAIN moved.wallets :
                               moved.wallets[c][1] <= MaxBalance * moved.wallets[c][2]
                        /\ result' = TradeOutcome(op, cur.code, amount,
                                                  moved.status, out.result)
                        /\ wallets' = moved.wallets
        /\ UNCHANGED <<ttl, api_key, sched, main, files>>

\* the codes and amounts traded
TradeCodes == {"btc", "eur"}

TradeAmounts == {Zero, One}

\* what the upstreams give: a bitcoin quote of 2, 0 or -2; a table based on
\* USD with EUR at 2 or -2, or nothing
TradeCryptoFetches ==
    {CoinGeckoFetch(Http(200, "object", [bitcoin |-> [usd |-> r]])) :
        r \in {Two, Zero, Minus}}

TradeFiatFetches ==
    {ExchangeRateFetch(r, "key") :
        r \in {NetError}
              \cup {Http(200, "object", FiatBody("success", "USD", <<<<"EUR", q>>>>)) :
                      q \in {Two, Minus}}}

\* the user has no portfolio, or one with 4 USD
InitTrade ==
    /\ cache = EmptyCache
    /\ history = <<>>
    /\ now = 0
    /\ ttl \in TtlSettings
    /\ api_key = "key"
    /\ result = Idle
    /\ sched = SchedOff
    /\ main = MainIdle
    /\ files = FilesAtRest
    /\ wallets \in {NoWallets, "USD" :> Four}

Buy ==
    \E code \in TradeCodes, amount \in TradeAmounts,
       cFetched \in TradeCryptoFetches, fFetched \in TradeFiatFetches,
       d \in CycleDelays :
        Trade("buy", code, amount, cFetched, fFetched, d)

Sell ==
    \E code \in TradeCodes, amount \in TradeAmounts,
       cFetched \in TradeCryptoFetches, fFetched \in TradeFiatFetches,
       d \in CycleDelays :
        Trade("sell", code, amount, cFetched, fFetched, d)

TradeCycle ==
    \E cFetched \in TradeCryptoFetches, fFetched \in TradeFiatFetches :
        Cycle("none", cFetched, fFetched)

NextTrade == Tick \/ Return \/ TradeCycle \/ Buy \/ Sell

SpecTrade == InitTrade /\ [][NextTrade]_vars

---------------------------------------------------------------------------
(* Claims about trades and about the direction of fiat quotes.               *)

\* the cache has a fresh rate for CODE_USD
FreshRate(code) ==
    /\ PairKey(code, "USD") \in DOMAIN cache.pairs
    /\ cache.pairs[PairKey(code, "USD")].rate # None
    /\ ~StaleIn(cache, PairKey(code, "USD"), now)

\* the fresh rate of CODE_USD
RateOf(code) == cache.pairs[PairKey(code, "USD")].rate

\* a buy of a positive amount with a fresh rate and enough USD
BuyStep ==
    /\ result = Idle
    /\ result'.op = "buy"
    /\ Positive(result'.amount)
    /\ FreshRate(result'.code)
    /\ ~Below(Balance(wallets, "USD"), Times(result'.amount, RateOf(result'.code)))

\* a sell of a positive amount with a fresh rate and enough of the code
SellStep ==
    /\ result = Idle
    /\ result'.op = "sell"
    /\ Positive(result'.amount)
    /\ FreshRate(result'.code)
    /\ ~Below(Balance(wallets, result'.code), result'.amount)

\* C29: with a fresh rate r for CODE_USD, buy(user, CODE, a) with a > 0 and
\* a USD balance of at least a*r takes a*r from the USD balance and adds a
\* to the CODE balance; sell(user, CODE, a) with a CODE balance of at least
\* a takes a from the CODE balance and adds a*r to the USD balance.
C29_TradeMovesBalances ==
    [][/\ BuyStep =>
            /\ Balance(wallets', "USD")
                 = Less(Balance(wallets, "USD"),
                        Times(result'.amount, RateOf(result'.code)))
            /\ Balance(wallets', result'.code)
                 = Plus(Balance(wallets, result'.code), result'.amount)
       /\ SellStep =>
            /\ Balance(wallets', result'.code)
                 = Less(Balance(wallets, result'.code), result'.amount)
            /\ Balance(wallets', "USD")
                 = Plus(Balance(wallets, "USD"),
                        Times(result'.amount, RateOf(result'.code)))]_vars

\* a trade of a positive amount at a fresh stored rate of 0 has raised
\* ValidationError
C29_Diverges ==
    /\ result.op \in {"buy", "sell"}
    /\ Positive(result.amount)
    /\ result.refresh = "none"
    /\ result.rate = Zero
    /\ result.status = "ValidationError"
    /\ Balance(wallets, "USD") = Four

\* what get_rate answers from the cache as it is
Quote(from_code, to_code) ==
    GetRate(from_code, to_code, cache, history, now, ttl, NoCrypto, NoFiatFetch, 0).result

---------------------------------------------------------------------------
(* Claims about the resolver and the cycle, continued.                       *)

\* get_rate is called for a pair that is cached in both directions
BothCachedStep ==
    /\ result = Idle
    /\ result'.op = "get_rate"
    /\ result'.from # result'.to
    /\ PairKey(result'.from, result'.to) \in DOMAIN cache.pairs
    /\ PairKey(result'.to, result'.from) \in DOMAIN cache.pairs

\* C31: the reverse pair is asked only when the direct key is absent: with
\* FROM_TO and TO_FROM both cached, get_rate(FROM, TO) is decided by FROM_TO
\* alone; a stale FROM_TO leads to a refresh and then to StaleRatesError,
\* however fresh TO_FROM is.
C31_DirectPairDecides ==
    [][BothCachedStep =>
        LET pair_direct == PairKey(result'.from, result'.to)
        IN  /\ StaleIn(cache, pair_direct, now) => result'.refresh # "none"
            /\ \/ result'.refresh = "raised" /\ result'.status = "ApiRequestError"
               \/ /\ result'.via = "direct"
                  /\ result'.status = "ok" =>
                        result'.rate = cache'.pairs[pair_direct].rate
                  /\ result'.updated_at
                       = OrElse(cache'.pairs[pair_direct].updated_at,
                                cache'.last_refresh)
                  /\ result'.status
                       = IF StaleIn(cache', pair_direct, now')
                         THEN "StaleRatesError" ELSE "ok"]_vars

\* get_rate has refreshed and raised StaleRatesError for a stale direct
\* pair while the reverse pair, cached before the call, is fresh
C31_Witness ==
    /\ result.op = "get_rate"
    /\ result.status = "StaleRatesError"
    /\ result.via = "direct"
    /\ result.refresh = "done"
    /\ PairKey(result.to, result.from) \in DOMAIN cache.pairs
    /\ Truthy(cache.pairs[PairKey(result.to, result.from)].rate)
    /\ ~StaleIn(cache, PairKey(result.to, result.from), now)
    /\ cache.pairs[PairKey(result.to, result.from)].updated_at # cache.last_refresh

\* C32: after a cycle that saves the cache, every pair key of the saved
\* cache, the pairs written in that cycle among them, has both legs in the
\* supported currency set.
C32_SavedPairsSupported ==
    (CycleReturned /\ result.ret.ok) =>
        \A p \in DOMAIN cache.pairs : SupportedPair(p)

\* a cycle has saved a cache with a pair it wrote itself from the fiat
\* table, under a code outside the supported set
C32_Diverges ==
    /\ CycleReturned
    /\ result.ret.ok
    /\ \E i \in FiatQuoted(result.fiat) :
        /\ FiatKey(result.fiat, i) \in DOMAIN cache.pairs
        /\ ~SupportedPair(FiatKey(result.fiat, i))
        /\ cache.pairs[FiatKey(result.fiat, i)].updated_at = cache.last_refresh

\* the adapters whose fetch_rates a cycle with this source filter calls
AdaptersCalled(source) ==
    (IF CryptoEnabled(source) THEN {"coingecko"} ELSE {})
    \cup (IF FiatEnabled(source) THEN {"exchangerate"} ELSE {})

\* every cached quote with this source tag is in the cache after the step
\* with the same rate and updated_at
QuotesKept(tag) ==
    \A p \in DOMAIN cache.pairs :
        cache.pairs[p].source = tag =>
            /\ p \in DOMAIN cache'.pairs
            /\ cache'.pairs[p].rate = cache.pairs[p].rate
            /\ cache'.pairs[p].updated_at = cache.pairs[p].updated_at

\* C33: a cycle restricted to one source calls that source's adapter only:
\* with the crypto filter the fiat adapter is not called and every quote
\* from the fiat source keeps its rate and updated_at, and the same the
\* other way round; without a filter both adapters are called.
C33_FilterCallsOneAdapter ==
    [][CycleStep =>
        /\ result'.source = "coingecko" =>
            /\ AdaptersCalled(result'.source) = {"coingecko"}
            /\ ~result'.fiat.present
            /\ QuotesKept("ExchangeRate-API")
        /\ result'.source = "exchangerate" =>
            /\ AdaptersCalled(result'.source) = {"exchangerate"}
            /\ CryptoQuoted(result'.crypto) = {}
            /\ QuotesKept("CoinGecko")
        /\ result'.source = "none" =>
            AdaptersCalled(result'.source) = {"coingecko", "exchangerate"}]_vars

\* a cycle restricted to the fiat source has written BTC_USD from the fiat
\* table over the quote of the crypto source
C33_Diverges ==
    /\ CycleReturned
    /\ result.source = "exchangerate"
    /\ result.ret.ok
    /\ \E i \in FiatQuoted(result.fiat) :
        FiatKey(result.fiat, i) = PairKey("BTC", "USD")
    /\ Len(history) = 2
    /\ history[1].source = "CoinGecko"
    /\ history[1].from_currency = "BTC"
    /\ history[2].source = "ExchangeRate-API"
    /\ PairKey("BTC", "USD") \in DOMAIN cache.pairs
    /\ cache.pairs[PairKey("BTC", "USD")].source = "ExchangeRate-API"
    /\ cache.pairs[PairKey("BTC", "USD")].updated_at = cache.last_refresh

\* C36: in the caches reached by cycles run one after another while the
\* clock does not go back, no quote's updated_at is later than last_refresh,
\* the quotes written in one cycle all carry that cycle's timestamp, and
\* last_refresh is the timestamp of the last cycle that saved.
C36_TimestampsOrdered ==
    [][/\ \A p \in DOMAIN cache'.pairs :
            cache'.pairs[p].updated_at[2] <= cache'.last_refresh[2]
       /\ (CycleStep /\ ~result'.raised /\ result'.ret.ok) =>
            /\ cache'.last_refresh = Iso(now)
            /\ cache'.last_refresh = result'.ret.last_refresh
            /\ \A p \in WrittenKeys(result') :
                cache'.pairs[p].updated_at = Iso(now)
       /\ (CycleStep /\ (result'.raised \/ ~result'.ret.ok)) =>
            cache'.last_refresh = cache.last_refresh]_vars

\* a cycle has written a quote under its timestamp beside a quote that an
\* earlier cycle wrote
C36_Witness ==
    /\ CycleReturned
    /\ result.ret.ok
    /\ cache.last_refresh = Iso(now)
    /\ \E p \in WrittenKeys(result) : cache.pairs[p].updated_at = Iso(now)
    /\ \E p \in DOMAIN cache.pairs : cache.pairs[p].updated_at[2] < now

---------------------------------------------------------------------------
(* Claims about interleaved cycles.                                          *)

\* neither thread is inside a cycle
Quiescent == main.pc = "idle" /\ sched.pc \in {"test", "wait", "exited"}

\* the pair keys of the quotes that cycles have written so far: each has
\* its history record
EverWritten == {PairKey(history[i].from_currency, history[i].to_currency) :
                    i \in 1..Len(history)}

\* C34: when the scheduler's cycle and a cycle started by get_rate
\* interleave, the cache they leave holds every quote either of them wrote
\* and every quote both retained: no quote is lost because the other cycle
\* saved a cache it had read earlier.
C34_NoQuoteLost ==
    Quiescent => \A p \in EverWritten : p \in DOMAIN cache.pairs

\* both cycles are over, rates.json holds a whole document, no replace has
\* failed, and the ETH_USD quote one of them wrote is not in it
C34_Diverges ==
    /\ Quiescent
    /\ files.json.whole
    /\ ~files.tmp.exists
    /\ ~sched.failed
    /\ result # Idle
    /\ result.op = "get_rate"
    /\ result.status # "ApiRequestError"
    /\ PairKey("ETH", "USD") \in EverWritten
    /\ PairKey("BTC", "USD") \in DOMAIN cache.pairs
    /\ PairKey("ETH", "USD") \notin DOMAIN cache.pairs

---------------------------------------------------------------------------
(* The history appends of two interleaved cycles.  append_history_record     *)
(* reads exchange_rates.json, appends to the list it read and writes the     *)
(* list back; the write itself is taken as one step here.                    *)

\* what a thread's cycle carries: the records still to append, the list the
\* current append has read, the records it has appended, and the cache it
\* will save
NoAppends ==
    [todo |-> <<>>, seen |-> <<>>, done |-> <<>>, cache |-> EmptyCache, save |-> FALSE]

\* update() up to its first append: the fetch, the read of rates.json and
\* the merge
BeginAppends(cFetched) ==
    LET cyc == Update("none", cFetched, NoFiatFetch, cache, <<>>, now)
    IN  [todo |-> cyc.history, seen |-> <<>>, done |-> <<>>,
         cache |-> cyc.cache,
         save |-> IF cyc.raised THEN FALSE ELSE cyc.ret.ok]

\* where a cycle goes next; rest is where its thread goes after the cycle
NextAppendPc(b, rest) ==
    IF b.todo # <<>> THEN "read" ELSE IF b.save THEN "save" ELSE rest

\* history.append(record) on the list read, and the bookkeeping
AfterAppend(b) ==
    [b EXCEPT !.todo = Tail(b.todo), !.done = b.done \o <<Head(b.todo)>>]

\* the scheduler's cycles quote bitcoin, the update command's ethereum
SchedHistoryFetches ==
    {CoinGeckoFetch(r) : r \in {NetError, Http(200, "object", CoinPayload({"bitcoin"}))}}

MainHistoryFetches ==
    {CoinGeckoFetch(r) : r \in {NetError, Http(200, "object", CoinPayload({"ethereum"}))}}

\* empty files, the scheduler just started
InitHistory ==
    /\ cache = EmptyCache
    /\ history = <<>>
    /\ now = 0
    /\ ttl \in TtlSettings
    /\ api_key = "key"
    /\ result = Idle
    /\ sched = [SchedOff EXCEPT !.pc = "test", !.data = NoAppends]
    /\ main = [MainIdle EXCEPT !.data = NoAppends]
    /\ files = FilesAtRest
    /\ wallets = NoWallets

HistSchedBegin ==
    \E cFetched \in SchedHistoryFetches :
        LET b == BeginAppends(cFetched)
        IN  /\ sched.pc = "cycle"
            /\ Len(history) + Len(b.todo) + Len(main.data.todo) <= MaxHistory
            /\ sched' = [sched EXCEPT !.data = b, !.pc = NextAppendPc(b, "wait")]
            /\ UNCHANGED <<cache, history, now, ttl, api_key, result, main, files, wallets>>

\* history = self._read_json(history_path)
HistSchedRead ==
    /\ sched.pc = "read"
    /\ sched' = [sched EXCEPT !.data.seen = history, !.pc = "write"]
    /\ UNCHANGED <<cache, history, now, ttl, api_key, result, main, files, wallets>>

\* history.append(record); self._write_json(history_path, history)
HistSchedWrite ==
    /\ sched.pc = "write"
    /\ history' = sched.data.seen \o <<Head(sched.data.todo)>>
    /\ sched' = [sched EXCEPT !.data = AfterAppend(sched.data),
                              !.pc = NextAppendPc(AfterAppend(sched.data), "wait")]
    /\ UNCHANGED <<cache, now, ttl, api_key, result, main, files, wallets>>

\* save_rates_cache(cache) at the end of the cycle
HistSchedSave ==
    /\ sched.pc = "save"
    /\ cache' = sched.data.cache
    /\ sched' = [sched EXCEPT !.pc = "wait"]
    /\ UNCHANGED <<history, now, ttl, api_key, result, main, files, wallets>>

\* the update command on the main thread
HistMainBegin ==
    \E cFetched \in MainHistoryFetches :
        LET b == BeginAppends(cFetched)
        IN  /\ main.pc = "idle"
            /\ Len(history) + Len(b.todo) + Len(sched.data.todo) <= MaxHistory
            /\ main' = [main EXCEPT !.data = b, !.pc = NextAppendPc(b, "idle")]
            /\ UNCHANGED <<cache, history, now, ttl, api_key, result, sched, files, wallets>>

HistMainRead ==
    /\ main.pc = "read"
    /\ main' = [main EXCEPT !.data.seen = history, !.pc = "write"]
    /\ UNCHANGED <<cache, history, now, ttl, api_key, result, sched, files, wallets>>

HistMainWrite ==
    /\ main.pc = "write"
    /\ history' = main.data.seen \o <<Head(main.data.todo)>>
    /\ main' = [main EXCEPT !.data = AfterAppend(main.data),
                            !.pc = NextAppendPc(AfterAppend(main.data), "idle")]
    /\ UNCHANGED <<cache, now, ttl, api_key, result, sched, files, wallets>>

HistMainSave ==
    /\ main.pc = "save"
    /\ cache' = main.data.cache
    /\ main' = [main EXCEPT !.pc = "idle"]
    /\ UNCHANGED <<history, now, ttl, api_key, result, sched, files, wallets>>

NextHistory ==
    \/ Tick
    \/ SchedTest
    \/ SchedWait
    \/ HistSchedBegin
    \/ HistSchedRead
    \/ HistSchedWrite
    \/ HistSchedSave
    \/ HistMainBegin
    \/ HistMainRead
    \/ HistMainWrite
    \/ HistMainSave

SpecHistory == InitHistory /\ [][NextHistory]_vars

\* the records a sequence holds
Records(h) == {h[i] : i \in 1..Len(h)}

\* C35: when two cycles interleave no history record is lost: once both are
\* over, the history holds a record for every quote either of them wrote,
\* although every append reads the whole history and writes it back.
C35_NoRecordLost ==
    Quiescent =>
        Records(sched.data.done) \cup Records(main.data.done) \subseteq Records(history)

\* both cycles are over, each has appended its record, and the history
\* holds the update command's record without the scheduler's
C35_Diverges ==
    /\ Quiescent
    /\ sched.data.done # <<>>
    /\ main.data.done # <<>>
    /\ Records(main.data.done) \subseteq Records(history)
    /\ Records(sched.data.done) \cap Records(history) = {}

---------------------------------------------------------------------------
(* RatesScheduler.start and stop against the loop thread.  main.data is the *)
(* last of the two the caller made; a cycle of the loop is one step.        *)

\* self._thread and self._thread.is_alive()
IsAlive(s) == s.pc \notin {"off", "exited"}

\* start(): nothing while the thread is alive; else the event is cleared
\* and a new thread begins at the loop test
Started(s) ==
    IF IsAlive(s) THEN s ELSE [s EXCEPT !.stop = FALSE, !.pc = "test", !.failed = FALSE]

\* a stop() that only joins
StoppedJoinOnly(s) == s

\* stop(): self._stop_event.set()
Stopped(s) == [s EXCEPT !.stop = TRUE]

\* start_scheduler has returned
InitSched ==
    /\ cache = EmptyCache
    /\ history = <<>>
    /\ now = 0
    /\ ttl \in TtlSettings
    /\ api_key = "key"
    /\ result = Idle
    /\ sched = Started(SchedOff)
    /\ main = [MainIdle EXCEPT !.data = "start"]
    /\ files = FilesAtRest
    /\ wallets = NoWallets

\* self.updater.update() inside the try of _run_loop
LoopCycle ==
    \E cFetched \in SchedHistoryFetches :
        LET cyc == Update("none", cFetched, NoFiatFetch, cache, history, now)
        IN  /\ sched.pc = "cycle"
            /\ Len(cyc.history) <= MaxHistory
            /\ cache' = cyc.cache
            /\ history' = cyc.history
            /\ sched' = [sched EXCEPT !.pc = AfterCycle(cyc.raised),
                                      !.failed = cyc.raised]
            /\ UNCHANGED <<now, ttl, api_key, result, main, files, wallets>>

\* the steps of the loop thread
LoopStep == SchedTest \/ LoopCycle \/ SchedWait

StartCall ==
    /\ main.pc = "idle"
    /\ sched' = Started(sched)
    /\ main' = [main EXCEPT !.data = "start"]
    /\ UNCHANGED <<cache, history, now, ttl, api_key, result, files, wallets>>

\* stop() up to its join
StopCall ==
    /\ main.pc = "idle"
    /\ sched' = Stopped(sched)
    /\ main' = [main EXCEPT !.pc = "join", !.data = "stop"]
    /\ UNCHANGED <<cache, history, now, ttl, api_key, result, files, wallets>>

\* self._thread.join(timeout=1): the thread has ended
JoinReturns ==
    /\ main.pc = "join"
    /\ ~IsAlive(sched)
    /\ main' = [main EXCEPT !.pc = "idle"]
    /\ UNCHANGED <<cache, history, now, ttl, api_key, result, sched, files, wallets>>

\* self._thread.join(timeout=1): the second is over and the thread is still
\* inside update()
JoinTimesOut ==
    /\ main.pc = "join"
    /\ sched.pc = "cycle"
    /\ main' = [main EXCEPT !.pc = "idle"]
    /\ UNCHANGED <<cache, history, now, ttl, api_key, result, sched, files, wallets>>

NextSched ==
    \/ Tick
    \/ LoopStep
    \/ StartCall
    \/ StopCall
    \/ JoinReturns
    \/ JoinTimesOut

SpecSched == InitSched /\ [][NextSched]_vars

\* the loop thread is scheduled, and a join ends
SpecSchedFair ==
    SpecSched /\ WF_vars(LoopStep) /\ WF_vars(JoinReturns \/ JoinTimesOut)

\* C37: once a start() has returned and no stop() is called after it, the
\* loop keeps running cycles, also when the start() came right after a
\* stop() whose loop thread had not ended yet.
C37_StartedLoopRuns ==
    (main.data = "start" /\ main.pc = "idle") ~> (sched.pc = "cycle" \/ main.data = "stop")

\* the last call was start(), it has returned, and the loop thread has ended
\* with the event still set
C37_Diverges ==
    /\ main.data = "start"
    /\ main.pc = "idle"
    /\ sched.pc = "exited"
    /\ sched.stop

\* C38: after stop() on a running scheduler, with no start() after it, the
\* loop begins no new cycle once the one in progress is over, and the loop
\* thread ends.
C38_StoppedLoopEnds ==
    /\ [][(main.data = "stop" /\ main'.data = "stop")
            => ~(sched.pc = "test" /\ sched'.pc = "cycle")]_vars
    /\ (main.data = "stop") ~> (sched.pc = "exited" \/ main.data = "start")

\* the last call was stop(), it has returned, the loop thread has ended
\* and its last cycle wrote a quote at the present second
C38_Witness ==
    /\ main.data = "stop"
    /\ main.pc = "idle"
    /\ sched.pc = "exited"
    /\ history # <<>>
    /\ history[Len(history)].timestamp = Iso(now)

---------------------------------------------------------------------------
(* Orders of any amount the command line parses, nan among them.             *)

OrderAmounts == {Zero, One, NaN}

\* a bitcoin quote of 2 or 0, and no fiat table
OrderCryptoFetches ==
    {CoinGeckoFetch(Http(200, "object", [bitcoin |-> [usd |-> r]])) : r \in {Two, Zero}}

OrderFiatFetches == {ExchangeRateFetch(NetError, "key")}

OrderBuy ==
    \E code \in TradeCodes, amount \in OrderAmounts,
       cFetched \in OrderCryptoFetches, fFetched \in OrderFiatFetches :
        Trade("buy", code, amount, cFetched, fFetched, 0)

OrderSell ==
    \E code \in TradeCodes, amount \in OrderAmounts,
       cFetched \in OrderCryptoFetches, fFetched \in OrderFiatFetches :
        Trade("sell", code, amount, cFetched, fFetched, 0)

\* Portfolio.get_total_value: the base wallet as it is, every other wallet
\* whose key CODE_base is in rates at that rate
RECURSIVE TotalOver(_, _, _, _)
TotalOver(codes, w, rates, base) ==
    IF codes = {} THEN Zero
    ELSE LET code == CHOOSE c \in codes : TRUE
             pair == PairKey(code, base)
             value == IF code = base THEN w[code]
                      ELSE IF pair \in DOMAIN rates
                      THEN Times(w[code], rates[pair])
                      ELSE Zero
         IN  Plus(TotalOver(codes \ {code}, w, rates, base), value)

GetTotalValue(w, rates, base) == TotalOver(DOMAIN w, w, rates, base)

\* show_portfolio: the base is looked up in the registry, the rates are
\* what get_all_rates gives; a user without a portfolio gets an empty one
\* saved, which trades treat as they treat none
ShowPortfolio(w, c, base) ==
    LET base_currency == GetCurrency(base).code
    IN  [op |-> "show_portfolio", base |-> base_currency,
         total_value |-> GetTotalValue(w, GetAllRates(c), base_currency)]

ShowBases == {"usd", "eur"}

ShowPortfolioCall ==
    \E base \in ShowBases :
        /\ result = Idle
        /\ result' = ShowPortfolio(wallets, cache, base)
        /\ UNCHANGED <<cache, history, now, ttl, api_key, others>>

NextOrders == Tick \/ Return \/ OrderBuy \/ OrderSell \/ ShowPortfolioCall

SpecOrders == InitTrade /\ [][NextOrders]_vars

---------------------------------------------------------------------------
(* Claims about failed trades and stored balances.                           *)

\* balance >= 0
NotNegative(balance) == ~IsNaN(balance) /\ balance[1] >= 0

\* a buy or sell has raised
FailedTradeStep ==
    /\ result = Idle
    /\ result'.op \in {"buy", "sell"}
    /\ result'.status # "ok"

\* C39: a buy or sell that fails, whatever the reason, leaves the stored
\* portfolio as it was, and after any sequence of buys and sells every
\* stored balance is >= 0.
C39_FailedTradeKeepsPortfolio ==
    /\ [][FailedTradeStep => wallets' = wallets]_vars
    /\ [](\A code \in DOMAIN wallets : NotNegative(wallets[code]))

\* a buy of nan bitcoin at a rate of 2 has returned, and the stored USD and
\* BTC balances are nan
C39_Diverges ==
    /\ result.op = "buy"
    /\ result.status = "ok"
    /\ result.code = "BTC"
    /\ IsNaN(result.amount)
    /\ result.rate = Two
    /\ IsNaN(wallets["USD"])
    /\ IsNaN(wallets["BTC"])

---------------------------------------------------------------------------
(* Claims about the value of a portfolio.                                    *)

\* the cached rates under their pair keys
CachedRates ==
    [p \in {q \in DOMAIN cache.pairs : cache.pairs[q].rate # None}
        |-> cache.pairs[p].rate]

\* C40: show_portfolio(user, base) returns as total_value the balance of
\* the base wallet plus, for every other wallet whose CODE_base rate is in
\* the cache, the balance times that rate; a wallet with a cached CODE_USD
\* rate counts in the USD total.
C40_TotalCountsRatedWallets ==
    (result # Idle /\ result.op = "show_portfolio") =>
        result.total_value = TotalOver(DOMAIN wallets, wallets, CachedRates, result.base)

\* the portfolio holds 2 USD and 1 BTC, BTC_USD is cached at 2, and
\* show_portfolio in USD has returned a total of 2
C40_Diverges ==
    /\ result # Idle
    /\ result.op = "show_portfolio"
    /\ result.base = "USD"
    /\ DOMAIN wallets = {"USD", "BTC"}
    /\ wallets["USD"] = Two
    /\ wallets["BTC"] = One
    /\ PairKey("BTC", "USD") \in DOMAIN cache.pairs
    /\ cache.pairs[PairKey("BTC", "USD")].rate = Two
    /\ result.total_value = Two

====
